---- MODULE Spec2Model ----
(***************************************************************************)
(* Sub-Frame-Selector: the analysis orchestrator (analysis/analyzer.py)    *)
(* with the statistics it aggregates (analysis/statistics.py), the         *)
(* metrics record it builds (analysis/metrics.py), the star lists it gets  *)
(* from analysis/star_detector.py and the file and header access it        *)
(* performs (analysis/fits_reader.py).                                     *)
(*                                                                         *)
(* Spec is one analyzer running batches; ConstructSpec is the constructor  *)
(* followed by batches; CalcSpec is the statistics calculator called on    *)
(* its own; PipeSpec is the pipeline of a single file.                     *)
(*                                                                         *)
(* Numbers are fixed point.  A metric value v stands for v / ValueScale    *)
(* (4.1 px is 41).  Statistics (median, mad, sigma, bands, min, max) are   *)
(* kept in units of 1 / (ValueScale * StatScale); StatScale is a multiple  *)
(* of 4 and of MadScaleDen, so that the mean of the two middle values, the *)
(* mean of two middle deviations and the product with MAD_SCALE_FACTOR are *)
(* all exact.  Python's None is the empty tuple, a present value v is <<v>>.*)
(***************************************************************************)
EXTENDS Integers, Sequences, FiniteSets, TLC

None == <<>>
Some(x) == <<x>>

Abs(x) == IF x < 0 THEN -x ELSE x

Max2(a, b) == IF a >= b THEN a ELSE b
Min2(a, b) == IF a <= b THEN a ELSE b

(***************************************************************************)
(* Bounds of the model.                                                    *)
(***************************************************************************)
MaxFiles == 3
MaxCpu == 2
\* the constructor on its own: core counts and worker arguments
MaxCores == 4
\* the statistics calculator on its own: length of a value array
MaxValues == 3
\* the per-file pipeline on its own: sources in an image, and the cap
MaxSources == 3
MaxStars == 3

(***************************************************************************)
(* Fixed-point scales and program constants.                               *)
(***************************************************************************)
ValueScale == 10
MadScaleNum == 14826
MadScaleDen == 10000
StatScale == 4 * MadScaleDen
\* sigma = 0.001, in statistics units
SigmaFloor == (ValueScale * StatScale) \div 1000
\* 206.265, times 1000
ArcsecFactorMilli == 206265

(***************************************************************************)
(* numpy: elements of a value array.  A float is Num(v), np.nan is NaN,    *)
(* and None inside an object array is NoneVal.                             *)
(***************************************************************************)
Num(v) == [tag |-> "num", v |-> v]
NaN == [tag |-> "nan", v |-> 0]
NoneVal == [tag |-> "none", v |-> 0]
Inf == [tag |-> "inf", v |-> 0]

IsFiniteVal(x) == x.tag = "num"

RemoveAt(s, k) == [j \in 1..(Len(s) - 1) |-> IF j < k THEN s[j] ELSE s[j + 1]]

RECURSIVE SortAsc(_)
SortAsc(s) ==
    IF s = <<>> THEN <<>>
    ELSE LET m == CHOOSE i \in 1..Len(s) : \A j \in 1..Len(s) : s[i] <= s[j]
         IN  <<s[m]>> \o SortAsc(RemoveAt(s, m))

\* the middle of the array as it is given, without the sort
NpMedianUnsorted(s) ==
    LET n == Len(s)
    IN  IF n % 2 = 1 THEN s[(n + 1) \div 2]
        ELSE (s[n \div 2] + s[n \div 2 + 1]) \div 2

\* np.median of a non-empty sequence of integers whose pairwise sums are even
NpMedian(s) ==
    LET t == SortAsc(s)
        n == Len(t)
    IN  IF n % 2 = 1 THEN t[(n + 1) \div 2]
        ELSE (t[n \div 2] + t[n \div 2 + 1]) \div 2

NpMin(s) == CHOOSE x \in {s[i] : i \in 1..Len(s)} : \A j \in 1..Len(s) : x <= s[j]
NpMax(s) == CHOOSE x \in {s[i] : i \in 1..Len(s)} : \A j \in 1..Len(s) : x >= s[j]

(***************************************************************************)
(* StatisticsCalculator                                                    *)
(***************************************************************************)
\* the neutral result with a sigma of one metric unit
EmptyResultUnitSigma ==
    [median |-> 0, sigma |-> ValueScale * StatScale, mad |-> 0,
     band_1sigma |-> <<0, 0>>, band_2sigma |-> <<0, 0>>,
     min |-> 0, max |-> 0]

EmptyResult ==
    [median |-> 0, sigma |-> 0, mad |-> 0,
     band_1sigma |-> <<0, 0>>, band_2sigma |-> <<0, 0>>,
     min |-> 0, max |-> 0]

\* values: a sequence of integers in statistics units
MedianAbsoluteDeviation(values) ==
    IF Len(values) = 0 THEN 0
    ELSE LET median == NpMedian(values)
         IN  NpMedian([k \in 1..Len(values) |-> Abs(values[k] - median)])

\* the values np.isfinite keeps, converted to statistics units
FiniteValues(values) ==
    LET fin == SelectSeq(values, IsFiniteVal)
    IN  [k \in 1..Len(fin) |-> fin[k].v * StatScale]

\* sigma left at 0 for identical values
SigmaOfMadNoFloor(mad) == (mad \div MadScaleDen) * MadScaleNum

\* the band with its ends exchanged
BandSwapped(median, sigma, k) == <<median + k * sigma, median - k * sigma>>

\* (median - k * sigma, median + k * sigma)
Band(median, sigma, k) == <<median - k * sigma, median + k * sigma>>

\* sigma = mad * MAD_SCALE_FACTOR, with the floor for sigma == 0
\* (mad is a multiple of MadScaleDen: the division is exact)
SigmaOfMad(mad) ==
    LET sigma == (mad \div MadScaleDen) * MadScaleNum
    IN  IF sigma = 0 THEN SigmaFloor ELSE sigma

\* values: a sequence of array elements (Num, NaN, NoneVal)
CalculateBands(values) ==
    IF Len(values) = 0 THEN EmptyResult
    ELSE LET valid == FiniteValues(values)
         IN  IF Len(valid) = 0 THEN EmptyResult
             ELSE LET median == NpMedian(valid)
                      mad == MedianAbsoluteDeviation(valid)
                      sigma == SigmaOfMad(mad)
                  IN  [median |-> median, sigma |-> sigma, mad |-> mad,
                       band_1sigma |-> Band(median, sigma, 1),
                       band_2sigma |-> Band(median, sigma, 2),
                       min |-> NpMin(valid), max |-> NpMax(valid)]

\* deviation without the absolute value: frames below the median are missed
IsOutlierSigned(value, stats, sigma_threshold) ==
    IF stats.sigma = 0 THEN FALSE
    ELSE (value * StatScale - stats.median) > sigma_threshold * stats.sigma

\* the test without the guard for sigma == 0
IsOutlierNoGuard(value, stats, sigma_threshold) ==
    Abs(value * StatScale - stats.median) > sigma_threshold * stats.sigma

\* value: a metric value; stats: a result of CalculateBands
IsOutlier(value, stats, sigma_threshold) ==
    IF stats.sigma = 0 THEN FALSE
    ELSE Abs(value * StatScale - stats.median) > sigma_threshold * stats.sigma

Indices(n) == [i \in 1..n |-> i]

\* np.isfinite(None) raises TypeError: the call ends without a result
GetOutlierIndices(values, sigma_threshold) ==
    LET stats == CalculateBands(values)
        Flagged(i) == IsFiniteVal(values[i])
                      /\ IsOutlier(values[i].v, stats, sigma_threshold)
    IN  IF \E i \in 1..Len(values) : values[i].tag = "none"
        THEN [raised |-> TRUE, idx |-> <<>>]
        ELSE [raised |-> FALSE, idx |-> SelectSeq(Indices(Len(values)), Flagged)]

(***************************************************************************)
(* StarDetector and the star metrics of MetricsCalculator.  An image is    *)
(* seen through its sources: what the finder in use detects in it.  A      *)
(* source carries the star dict built from it (x, y, flux, peak; positions *)
(* and widths in half pixels) and fit, what curve_fit gives on the cutout  *)
(* around it: None when it raises, else the widths 2.355 * sigma and the   *)
(* amplitude.  The bounds of curve_fit keep sigma at 0.5 pixel or more.    *)
(***************************************************************************)
VARIABLE
    max_stars       \* self.max_stars, handed to the StarDetector

PosScale == 2

\* image.shape[1] and image.shape[0], in pixels
ImageWidth == 16

ImageHeight == 16

\* fwhm_estimate = 5.0 and box_size = 15, the defaults the analyzer builds
\* its detector with
FwhmEstimate == 5 * PosScale

DefaultBoxSize == 15

Star(x, y, flux, peak, fit) ==
    [x |-> x, y |-> y, flux |-> flux, peak |-> peak, fit |-> fit]

Fit(fwhm_x, fwhm_y, amplitude) ==
    Some([fwhm_x |-> fwhm_x, fwhm_y |-> fwhm_y, amplitude |-> amplitude])

\* a source of the batch model: at the left edge or in the middle of the
\* image, with a fit of 4 pixels both ways or none
Source(edge, fit) ==
    Star(IF edge THEN 0 ELSE 8 * PosScale, 8 * PosScale, 1, 100,
         IF fit THEN Fit(4 * PosScale, 4 * PosScale, 90) ELSE None)

SourceKinds == {Source(e, f) : e \in BOOLEAN, f \in BOOLEAN}

\* the cap the analyzer of the batch model is built with
BatchMaxStars == 2

\* sources[:max_stars] of a Python list or table
Prefix(s, n) ==
    IF n >= Len(s) THEN s
    ELSE IF n >= 0 THEN SubSeq(s, 1, n)
    ELSE SubSeq(s, 1, Max2(0, Len(s) + n))

\* sort by flux, reverse=True: decreasing flux, equal fluxes in their order
SortByFlux(s) ==
    LET Rank(i) == Cardinality({j \in 1..Len(s) :
                        \/ s[j].flux > s[i].flux
                        \/ s[j].flux = s[i].flux /\ j < i}) + 1
    IN  [k \in 1..Len(s) |-> s[CHOOSE i \in 1..Len(s) : Rank(i) = k]]

\* the cap misses by one: one source more than max_stars is kept
DetectStarsOneMore(sources, cap) == Prefix(sources, cap + 1)

\* detect_stars on the table already sorted by decreasing flux: the
\* brightest max_stars sources ([] when there is none)
DetectStars(sources, cap) ==
    IF Len(sources) > cap THEN Prefix(sources, cap) ELSE sources

\* _detect_with_photutils: sources is the table of DAOStarFinder
DetectWithPhotutils(sources, cap) == DetectStars(SortByFlux(sources), cap)

\* _detect_simple: regions are the labelled peaks in the order of their
\* labels; the loop stops after max_stars of them, then comes the sort
DetectSimple(regions, cap) ==
    LET taken == SubSeq(regions, 1, Min2(Len(regions) + 1, cap + 1) - 1)
    IN  Prefix(SortByFlux(taken), cap)

\* detect_stars: the photutils path, the simple one on ImportError
DetectStarsOf(found, cap, photutils) ==
    IF photutils THEN DetectWithPhotutils(found, cap)
    ELSE DetectSimple(found, cap)

\* self.box_size: an even box_size is raised to the next odd number
BoxSize(box_size) == IF box_size % 2 = 1 THEN box_size ELSE box_size + 1

\* int(round(v)) of a position v >= 0 given in half pixels: Python rounds
\* halves to the even neighbour
PyRound(h) ==
    LET q == h \div PosScale
    IN  IF h % PosScale = 0 THEN q ELSE IF q % 2 = 0 THEN q ELSE q + 1

\* the bounds check of fit_psf, negated: the box around the rounded
\* position lies inside the image
InBounds(star, half_box) ==
    LET x == PyRound(star.x)
        y == PyRound(star.y)
    IN  ~(x - half_box < 0 \/ x + half_box >= ImageWidth
          \/ y - half_box < 0 \/ y + half_box >= ImageHeight)

\* every fit passes the sanity check
FitGaussian2dUnchecked(star, size) == star.fit

\* _fit_gaussian_2d on the cutout of size x size pixels around star: None
\* when curve_fit raises or a width leaves [0.5, size]
FitGaussian2d(star, size) ==
    IF star.fit = None THEN None
    ELSE LET f == star.fit[1]
         IN  IF f.fwhm_x < 1 \/ f.fwhm_y < 1
                \/ f.fwhm_x > size * PosScale \/ f.fwhm_y > size * PosScale
             THEN None
             ELSE star.fit

\* one PSFResult of fit_psf: the fit, or the fallback entry
PsfResult(star, size) ==
    LET fit_result == FitGaussian2d(star, size)
    IN  IF fit_result # None
        THEN [x |-> star.x, y |-> star.y,
              fwhm_x |-> fit_result[1].fwhm_x, fwhm_y |-> fit_result[1].fwhm_y,
              amplitude |-> fit_result[1].amplitude, fit_success |-> TRUE]
        ELSE [x |-> star.x, y |-> star.y,
              fwhm_x |-> FwhmEstimate, fwhm_y |-> FwhmEstimate,
              amplitude |-> star.peak, fit_success |-> FALSE]

\* fit_psf: stars near the edge are skipped, every other star gives one
\* PSFResult, a fallback entry (fit_success False) when the fit fails
FitPsf(stars, box_size) ==
    LET half_box == box_size \div 2
        Kept(star) == InBounds(star, half_box)
        kept == SelectSeq(stars, Kept)
    IN  [k \in 1..Len(kept) |-> PsfResult(kept[k], 2 * half_box + 1)]

FitSucceeded(r) == r.fit_success

\* calculate_star_count: the PSFResults with fit_success
CalculateStarCount(psf_results) == Len(SelectSeq(psf_results, FitSucceeded))

\* eccentricities are in thousandths, rounded down to an even number
EccScale == 1000

\* floor of the square root of n, for n up to (EccScale / 2) ^ 2
ISqrt(n) == CHOOSE r \in 0..(EccScale \div 2) : r * r <= n /\ n < (r + 1) * (r + 1)

\* the axis ratio b / a in place of sqrt(1 - (b / a) ^ 2)
EccentricityOfRatio(fwhm_x, fwhm_y) ==
    (Min2(fwhm_x, fwhm_y) * EccScale) \div Max2(fwhm_x, fwhm_y)

\* sqrt(1 - min((b / a) ^ 2, 1.0)) for a = max(fwhm_x, fwhm_y) > 0 and
\* b = min(fwhm_x, fwhm_y)
EccentricityOf(fwhm_x, fwhm_y) ==
    LET a == Max2(fwhm_x, fwhm_y)
        b == Min2(fwhm_x, fwhm_y)
        ratio_sq_num == Min2(b * b, a * a)
    IN  2 * ISqrt(((a * a - ratio_sq_num) * (EccScale \div 2) * (EccScale \div 2))
                  \div (a * a))

\* calculate_eccentricity: the median over the stars with fit_success and
\* a > 0, 0.0 without any
CalculateEccentricity(psf_results) ==
    LET Counts(r) == r.fit_success /\ Max2(r.fwhm_x, r.fwhm_y) > 0
        used == SelectSeq(psf_results, Counts)
        ecc_values == [k \in 1..Len(used) |->
                          EccentricityOf(used[k].fwhm_x, used[k].fwhm_y)]
    IN  IF Len(ecc_values) = 0 THEN 0 ELSE NpMedian(ecc_values)

(***************************************************************************)
(* The files the analyzer can be pointed at.  A path is <<folder, name>>.  *)
(* exists: the path is on disk; has_image: some data unit holds a 2D or 3D *)
(* plane; pixel_size, focal_length: the header's first parseable value     *)
(* (um, mm) or None; frame: the image, seen through its sources and        *)
(* through what the metric functions compute from it (ValueScale units).   *)
(***************************************************************************)
Frame(fwhm, ecc, snr, bg, sources) ==
    [fwhm |-> fwhm, eccentricity |-> ecc, snr |-> snr,
     background |-> bg, sources |-> sources]

NoFrame == Frame(0, 0, 0, 0, <<>>)

Disk ==
    { [path |-> <<"A", "f1.fits">>, exists |-> TRUE, has_image |-> TRUE,
       pixel_size |-> Some(4), focal_length |-> Some(500),
       frame |-> Frame(40, 3, 200, 1000,
                       <<Source(FALSE, TRUE), Source(FALSE, TRUE),
                         Source(FALSE, TRUE)>>)],
      [path |-> <<"A", "f2.fits">>, exists |-> TRUE, has_image |-> TRUE,
       pixel_size |-> None, focal_length |-> Some(500),
       frame |-> Frame(95, 6, 90, 1010,
                       <<Source(FALSE, FALSE), Source(FALSE, TRUE)>>)],
      [path |-> <<"A", "f5.fits">>, exists |-> TRUE, has_image |-> TRUE,
       pixel_size |-> Some(4), focal_length |-> Some(500),
       frame |-> Frame(41, 4, 210, 1000,
                       <<Source(TRUE, TRUE), Source(FALSE, TRUE)>>)],
      [path |-> <<"A", "f3.fits">>, exists |-> TRUE, has_image |-> FALSE,
       pixel_size |-> Some(4), focal_length |-> Some(250),
       frame |-> NoFrame],
      [path |-> <<"B", "f1.fits">>, exists |-> FALSE, has_image |-> FALSE,
       pixel_size |-> None, focal_length |-> None,
       frame |-> NoFrame] }

Paths == {d.path : d \in Disk}

Stat(path) == CHOOSE d \in Disk : d.path = path

\* Path(filepath).name
PathName(path) == path[2]

\* a file dict as load_folder builds it
FileInfo(path) == [path |-> path, filename |-> PathName(path)]

(***************************************************************************)
(* FITSReader                                                              *)
(***************************************************************************)
SupportedExtensions == {".fits", ".fit", ".fts"}

\* the directories on disk and what iterdir() finds in them: B holds no
\* FITS file
Directories == {"A", "B"}

DirEntries == {d.path : d \in {x \in Disk : x.exists}} \cup {<<"B", "notes.txt">>}

\* Path.suffix.lower() of the names on this disk
Suffix(name) == IF name = "notes.txt" THEN ".txt" ELSE ".fits"

\* the names on this disk in the order of sort(key=filename)
NameOrder == <<"f1.fits", "f2.fits", "f3.fits", "f5.fits", "notes.txt">>

NameRank(name) == CHOOSE k \in 1..Len(NameOrder) : NameOrder[k] = name

\* load_folder of an existing directory: the entries with a supported
\* extension, as file dicts sorted by filename
LoadFolderOn(entries, dir) ==
    LET found == {p \in entries :
                     p[1] = dir /\ Suffix(p[2]) \in SupportedExtensions}
        n == Cardinality(found)
        sorted == CHOOSE f \in [1..n -> found] :
                      \A i, j \in 1..n :
                          i < j => NameRank(f[i][2]) < NameRank(f[j][2])
    IN  [k \in 1..n |-> FileInfo(sorted[k])]

\* load_folder on the disk of the batch model
LoadFolder(dir) == LoadFolderOn(DirEntries, dir)

\* the data units (HDUs) of a container, each seen through the number of
\* dimensions of hdu.data (0: the unit has no data); the files of Disk hold
\* one unit
Hdus(path) == IF Stat(path).has_image THEN <<2>> ELSE <<0>>

\* the loop of load_file over the data units: the first unit whose data has
\* two dimensions or more is taken, its first plane when it has exactly
\* three, the data as it is otherwise
LoadData(hdus) ==
    LET usable == {i \in 1..Len(hdus) : hdus[i] >= 2}
    IN  IF usable = {}
        THEN [raised |-> TRUE, error |-> "No image data found in FITS file",
              hdu |-> 0, ndim |-> 0, plane |-> "none"]
        ELSE LET i == CHOOSE k \in usable : \A m \in usable : k <= m
             IN  [raised |-> FALSE, error |-> "", hdu |-> i,
                  ndim |-> IF hdus[i] = 3 THEN 2 ELSE hdus[i],
                  plane |-> IF hdus[i] = 3 THEN "first" ELSE "whole"]

\* load_file on a path that exists or not, holding the data units hdus
LoadContainer(exists, hdus) ==
    IF ~exists
    THEN [raised |-> TRUE, error |-> "FITS file not found",
          hdu |-> 0, ndim |-> 0, plane |-> "none"]
    ELSE LoadData(hdus)

\* load_file: the image (here: what the pipeline derives from it) or an error
LoadFile(path) ==
    LET data == LoadContainer(Stat(path).exists, Hdus(path))
    IN  IF data.raised
        THEN [raised |-> TRUE, error |-> data.error, frame |-> NoFrame]
        ELSE [raised |-> FALSE, error |-> "", frame |-> Stat(path).frame]

\* image scale in arcsec/pixel times 1000, or None
ImageScale(pixel_size, focal_length) ==
    IF pixel_size # None /\ pixel_size[1] # 0
       /\ focal_length # None /\ focal_length[1] # 0 /\ focal_length[1] > 0
    THEN Some((pixel_size[1] * ArcsecFactorMilli) \div focal_length[1])
    ELSE None

\* the keys get_imaging_params tries, in this order
PixelSizeKeys == <<"XPIXSZ", "PIXSIZE", "PIXSIZE1", "XPIXELSZ", "PIXSCALE">>

FocalLengthKeys == <<"FOCALLEN", "FOCAL", "FOCALLENGTH", "FL">>

ApertureKeys == <<"APTDIA", "DIAMETER", "APERTURE", "APTDIAMM">>

SeqRangeOf(s) == {s[k] : k \in 1..Len(s)}

HeaderKeys == SeqRangeOf(PixelSizeKeys) \cup SeqRangeOf(FocalLengthKeys)
              \cup SeqRangeOf(ApertureKeys)

\* a header value: a number, the (non-empty) string that spells a number,
\* or a string float() rejects; num is what float(value) gives
HNum(n) == [str |-> FALSE, num |-> Some(n)]

HStr(n) == [str |-> TRUE, num |-> Some(n)]

HText == [str |-> TRUE, num |-> None]

\* bool(header[key])
Truthy(v) == v.str \/ v.num[1] # 0

\* a header: each key absent (None) or present with a value
EmptyHeader == [k \in HeaderKeys |-> None]

\* the loop without the truth test: a key holding 0 ends it
RECURSIVE FirstValueAnyValue(_, _, _)
FirstValueAnyValue(header, keys, k) ==
    IF k > Len(keys) THEN None
    ELSE LET v == header[keys[k]]
         IN  IF v # None /\ v[1].num # None
             THEN v[1].num
             ELSE FirstValueAnyValue(header, keys, k + 1)

\* the loop over one key list: the keys that are absent or falsy are passed
\* over, the first of the others that float() accepts ends the loop
RECURSIVE FirstValue(_, _, _)
FirstValue(header, keys, k) ==
    IF k > Len(keys) THEN None
    ELSE LET v == header[keys[k]]
         IN  IF v # None /\ Truthy(v[1]) /\ v[1].num # None
             THEN v[1].num
             ELSE FirstValue(header, keys, k + 1)

NoParams ==
    [pixel_size_um |-> None, focal_length_mm |-> None, aperture_mm |-> None,
     image_scale |-> None]

\* get_imaging_params once get_header has returned the header
ParamsOfHeader(header) ==
    LET pixel_size == FirstValue(header, PixelSizeKeys, 1)
        focal_length == FirstValue(header, FocalLengthKeys, 1)
        aperture == FirstValue(header, ApertureKeys, 1)
    IN  [pixel_size_um |-> pixel_size, focal_length_mm |-> focal_length,
         aperture_mm |-> aperture,
         image_scale |-> ImageScale(pixel_size, focal_length)]

\* get_header of a file of Disk: its pixel size and focal length under the
\* first key of each list
GetHeader(path) ==
    [k \in HeaderKeys |->
        IF k = "XPIXSZ" /\ Stat(path).pixel_size # None
        THEN Some(HNum(Stat(path).pixel_size[1]))
        ELSE IF k = "FOCALLEN" /\ Stat(path).focal_length # None
        THEN Some(HNum(Stat(path).focal_length[1]))
        ELSE None]

\* get_imaging_params on a path that exists or not, holding this header:
\* get_header opens the file, which fails for a missing one
ParamsOfContainer(exists, header) ==
    IF ~exists
    THEN [raised |-> TRUE, error |-> "No such file or directory", params |-> NoParams]
    ELSE [raised |-> FALSE, error |-> "", params |-> ParamsOfHeader(header)]

GetImagingParams(path) == ParamsOfContainer(Stat(path).exists, GetHeader(path))

(***************************************************************************)
(* MetricsCalculator.calculate_all                                         *)
(***************************************************************************)
\* fwhm_pixels * image_scale if image_scale else None
FwhmArcsec(fwhm_pixels, image_scale) ==
    IF image_scale # None /\ image_scale[1] # 0
    THEN Some((fwhm_pixels * image_scale[1]) \div 1000)
    ELSE None

CalculateAll(frame, psf_results, image_scale) ==
    [fwhm |-> frame.fwhm,
     fwhm_arcsec |-> FwhmArcsec(frame.fwhm, image_scale),
     eccentricity |-> frame.eccentricity,
     snr |-> frame.snr,
     star_count |-> CalculateStarCount(psf_results),
     background |-> frame.background]

MetricNames == <<"fwhm", "eccentricity", "snr", "star_count", "background">>

MetricKeys == {"fwhm", "fwhm_arcsec", "eccentricity", "snr", "star_count", "background"}

\* metrics[metric] as an element of a value array
MetricValue(metrics, metric) ==
    IF metric = "fwhm_arcsec"
    THEN IF metrics.fwhm_arcsec = None THEN NoneVal ELSE Num(metrics.fwhm_arcsec[1])
    ELSE Num(metrics[metric])

(***************************************************************************)
(* calculate_all_metric_stats                                              *)
(***************************************************************************)
\* None counted as 0
ArcsecOrZero(metrics) ==
    IF metrics.fwhm_arcsec = None THEN Num(0) ELSE Num(metrics.fwhm_arcsec[1])

\* [v if v is not None else np.nan for v in fwhm_arcsec_values]
ArcsecOrNaN(metrics) ==
    IF metrics.fwhm_arcsec = None THEN NaN ELSE Num(metrics.fwhm_arcsec[1])

CalculateAllMetricStats(metrics_list) ==
    IF Len(metrics_list) = 0 THEN <<>>
    ELSE LET n == Len(metrics_list)
             names == {MetricNames[k] : k \in 1..Len(MetricNames)}
                      \cup (IF \E k \in 1..n : metrics_list[k].fwhm_arcsec # None
                            THEN {"fwhm_arcsec"} ELSE {})
         IN  [metric \in names |->
                 IF metric = "fwhm_arcsec"
                 THEN CalculateBands([k \in 1..n |-> ArcsecOrNaN(metrics_list[k])])
                 ELSE CalculateBands([k \in 1..n |-> Num(metrics_list[k][metric])])]

(***************************************************************************)
(* analyzer.py: the per-file pipelines                                     *)
(***************************************************************************)
ResultOk(path, metrics, stars, psf_results) ==
    [filepath |-> path, filename |-> PathName(path), metrics |-> Some(metrics),
     star_count_detected |-> Some(Len(stars)),
     star_count_fitted |-> Some(Len(psf_results)),
     error |-> None]

\* the error dropped from the result of a failed file
ResultErrorSilent(path, filename, error) ==
    [filepath |-> path, filename |-> filename, metrics |-> None,
     star_count_detected |-> None, star_count_fitted |-> None,
     error |-> None]

ResultError(path, filename, error) ==
    [filepath |-> path, filename |-> filename, metrics |-> None,
     star_count_detected |-> None, star_count_fitted |-> None,
     error |-> Some(error)]

\* the worker function of the pool: never raises
AnalyzeSingleFile(filepath, image_scale) ==
    LET image == LoadFile(filepath)
        stars == DetectStars(image.frame.sources, max_stars)
        psf_results == FitPsf(stars, DefaultBoxSize)
    IN  IF image.raised
        THEN ResultError(filepath, PathName(filepath), image.error)
        ELSE ResultOk(filepath,
                      CalculateAll(image.frame, psf_results, image_scale),
                      stars, psf_results)

\* the scale analyze_file works with: the one passed in, else the file's own header
ScaleForFile(filepath, image_scale) ==
    IF image_scale = None
    THEN GetImagingParams(filepath).params.image_scale
    ELSE image_scale

\* SubframeAnalyzer.analyze_file: raises what load_file raises.
\* header_read: whether the file's own header was consulted
AnalyzeFile(filepath, image_scale) ==
    LET image == LoadFile(filepath)
        stars == DetectStars(image.frame.sources, max_stars)
        psf_results == FitPsf(stars, DefaultBoxSize)
    IN  IF image.raised
        THEN [raised |-> TRUE, error |-> image.error, header_read |-> FALSE,
              result |-> ResultError(filepath, PathName(filepath), image.error)]
        ELSE [raised |-> FALSE, error |-> "", header_read |-> (image_scale = None),
              result |-> ResultOk(filepath,
                                  CalculateAll(image.frame, psf_results,
                                               ScaleForFile(filepath, image_scale)),
                                  stars, psf_results)]

\* one iteration's try/except in _analyze_sequential
SequentialResult(file_info, image_scale) ==
    LET r == AnalyzeFile(file_info.path, image_scale)
    IN  IF r.raised
        THEN ResultError(file_info.path, file_info.filename, r.error)
        ELSE r.result

\* the argument stored as it is given
InitNumWorkersUnclamped(cpu, arg) ==
    IF arg = None THEN Max2(1, cpu - 2) ELSE arg[1]

\* SubframeAnalyzer.__init__: the stored worker count
InitNumWorkers(cpu, arg) ==
    LET n == IF arg = None THEN Max2(1, cpu - 2) ELSE arg[1]
    IN  Max2(1, Min2(cpu, n))

\* [r['metrics'] for r in results if r.get('metrics')]
IsValidResult(r) == r.metrics # None

\* failed frames kept, with every metric 0
ValidMetricsZeroFilled(results) ==
    [k \in 1..Len(results) |->
        IF IsValidResult(results[k]) THEN results[k].metrics[1]
        ELSE CalculateAll(NoFrame, <<>>, None)]

ValidMetrics(results) ==
    LET valid == SelectSeq(results, IsValidResult)
    IN  [k \in 1..Len(valid) |-> valid[k].metrics[1]]

\* the value array get_outliers builds
OutlierValues(results, metric) ==
    [k \in 1..Len(results) |->
        IF results[k].metrics # None /\ metric \in MetricKeys
        THEN MetricValue(results[k].metrics[1], metric)
        ELSE NaN]

GetOutliersOf(results, metric, sigma_threshold) ==
    GetOutlierIndices(OutlierValues(results, metric), sigma_threshold)

BatchResult(total, results, workers_used, params) ==
    [total_files |-> total, results |-> results,
     statistics |-> CalculateAllMetricStats(ValidMetrics(results)),
     workers_used |-> workers_used, imaging_params |-> params]

\* the batch size left out of the choice
RunsParallelAnySize(fs, par, nw) == par /\ nw > 1

\* analyze_files: the choice of the execution path
RunsParallel(fs, par, nw) == par /\ nw > 1 /\ Len(fs) > 1

\* analyze_files as a function of its input: whether the header read of the
\* first file raises, the results list, and the statistics of the batch
AnalyzeFilesRaises(fs) ==
    Len(fs) > 0 /\ GetImagingParams(fs[1].path).raised

AnalyzeFilesResults(fs, par, nw) ==
    LET scale == GetImagingParams(fs[1].path).params.image_scale
    IN  [k \in 1..Len(fs) |->
            IF RunsParallel(fs, par, nw)
            THEN AnalyzeSingleFile(fs[k].path, scale)
            ELSE SequentialResult(fs[k], scale)]

AnalyzeFilesStatistics(fs, par, nw) ==
    IF Len(fs) = 0 THEN <<>>
    ELSE CalculateAllMetricStats(ValidMetrics(AnalyzeFilesResults(fs, par, nw)))

(***************************************************************************)
(* State: one analyzer, one call of analyze_files on it, and calls of      *)
(* get_outliers on the batch it returned.                                  *)
(***************************************************************************)
VARIABLES
    cpu_count,      \* multiprocessing.cpu_count()
    num_workers_arg,\* argument of the constructor
    num_workers,    \* self.num_workers
    folder,         \* argument of analyze_folder (result['folder']), if called
    files,          \* argument: the list of file dicts
    use_parallel,   \* argument
    has_callback,   \* argument: progress_callback is not None
    pc,             \* "new", "idle", "seq_cb", "seq_analyze", "par", "done", "raised"
    mode,           \* "none", "sequential", "parallel"
    image_scale,    \* local of analyze_files
    imaging_params, \* local of analyze_files
    workers,        \* local of analyze_files
    results,        \* local of _analyze_sequential / _analyze_parallel
    completed,      \* local of _analyze_parallel
    task,           \* pool: "queued", "finished", "yielded" per file
    finishOrder,    \* file positions in the order their pipelines finished
    headerReads,    \* paths whose header was read, in order
    cbLog,          \* the invocations of progress_callback, in order
    ret,            \* the returned batch, Some(...) once returned
    exc,            \* the exception that left analyze_files, Some(...) if any
    outliers        \* the last get_outliers call and its outcome

\* StatisticsCalculator called on its own
VARIABLES
    calc_values,    \* argument: the value array
    calc_bands,     \* what calculate_bands(values) returned, Some(...) once called
    calc_outliers,  \* the last get_outlier_indices(values, t) and its outcome
    calc_verdict    \* the last is_outlier(value, stats, t) and its outcome

\* the pipeline of one file on its own (_analyze_single_file, analyze_file)
VARIABLES
    pipe_image,     \* the sources of the loaded image
    pipe_stars,     \* detect_stars(image), Some(...) once called
    pipe_psf,       \* fit_psf(image, stars), Some(...) once called
    pipe_result     \* the result dict, Some(...) once built

\* FITSReader called on its own, on one container
VARIABLES
    rd_exists,      \* the path is on disk
    rd_hdus,        \* the data units of the container
    rd_header,      \* the header get_header returns for it
    rd_image,       \* the outcome of load_file, Some(...) once called
    rd_params       \* the outcome of get_imaging_params, Some(...) once called

\* StarDetector and calculate_eccentricity called on their own, on one image
VARIABLES
    det_photutils,  \* the import of photutils succeeds
    det_found,      \* what the finder in use detects, in the order it reports
    det_box_size,   \* argument box_size of the constructor
    det_stars,      \* detect_stars(image), Some(...) once called
    det_psf,        \* fit_psf(image, stars), Some(...) once called
    det_ecc         \* calculate_eccentricity(psf_results), Some(...) once called

\* the application window (SubframeSelectorApp with its FilePanel, PlotPanel
\* and Toolbar), the background threads it starts and the disk it works on.
\* Indices count from 1 here where Python counts from 0.
VARIABLES
    app_disk,       \* the paths on disk
    current_folder, \* self.current_folder
    fp_files,       \* FilePanel.files
    fp_widgets,     \* FilePanel.file_widgets: the index bound to the checkbox
                    \* command, the checkbox variable, the deletion marker
    fp_selected,    \* FilePanel.selected_indices
    fp_metrics,     \* FilePanel.metrics_data
    selected_for_deletion, \* self.selected_for_deletion
    sel_shared,     \* selected_for_deletion is the set object of the FilePanel
    analysis_results, \* self.analysis_results
    metrics_shared, \* analysis_results is the list object metrics_data
    has_statistics, \* self.analysis_statistics is not empty
    plot_points,    \* PlotPanel.values / filenames, None without a plot
    plot_selected,  \* PlotPanel.selected_indices
    delete_count,   \* Toolbar._delete_count
    is_analyzing,   \* self.is_analyzing
    threads,        \* the background threads alive, each at "started" or "except"
    after_queue,    \* the callbacks handed to self.after(0, ...), in order
    trash,          \* the paths send2trash moved away
    intended,       \* the files the user has marked, as the rows and points show them
    approved,       \* the files that were marked when a deletion was confirmed
    app_events      \* the number of user events so far

ctorVars == <<cpu_count, num_workers_arg, max_stars>>

appVars == <<app_disk, current_folder, fp_files, fp_widgets, fp_selected,
             fp_metrics, selected_for_deletion, sel_shared, analysis_results,
             metrics_shared, has_statistics, plot_points, plot_selected,
             delete_count, is_analyzing, threads, after_queue, trash,
             intended, approved, app_events>>

detVars == <<det_photutils, det_found, det_box_size, det_stars, det_psf, det_ecc>>

readerVars == <<rd_exists, rd_hdus, rd_header, rd_image, rd_params>>

calcVars == <<calc_values, calc_bands, calc_outliers, calc_verdict>>

pipeVars == <<pipe_image, pipe_stars, pipe_psf, pipe_result>>

batchVars == <<num_workers, folder, files, use_parallel, has_callback, pc, mode,
               image_scale, imaging_params, workers, results, completed, task,
               finishOrder, headerReads, cbLog, ret, exc, outliers>>

vars == <<ctorVars, appVars, detVars, readerVars, calcVars, pipeVars, batchVars>>

\* sequences over S of length at most n
SeqsUpTo(S, n) == UNION {[1..k -> S] : k \in 0..n}

\* the lists load_folder can build: every path once at most
FileLists ==
    {fs \in SeqsUpTo({FileInfo(p) : p \in Paths}, MaxFiles) :
        \A i, j \in 1..Len(fs) : fs[i] = fs[j] => i = j}

\* the num_workers arguments the constructor is tried with: none, negative,
\* zero, in range, and beyond the core count
WorkerArgs == {None} \cup {Some(k) : k \in (0 - 1)..(MaxCores + 1)}

Thresholds == {0, 2}

OutlierMetrics == {"fwhm", "fwhm_arcsec", "sharpness"}

Total == Len(files)

\* no call of analyze_files has been made
NoBatch ==
    /\ folder = None
    /\ files = <<>>
    /\ use_parallel = FALSE
    /\ has_callback = FALSE
    /\ mode = "none"
    /\ image_scale = None
    /\ imaging_params = None
    /\ workers = 0
    /\ results = <<>>
    /\ completed = 0
    /\ task = <<>>
    /\ finishOrder = <<>>
    /\ headerReads = <<>>
    /\ cbLog = <<>>
    /\ ret = None
    /\ exc = None
    /\ outliers = None

\* the calculator and the single-file pipeline are not called on their own
CalcUnused ==
    /\ calc_values = <<>>
    /\ calc_bands = None
    /\ calc_outliers = None
    /\ calc_verdict = None

ReaderUnused ==
    /\ rd_exists = FALSE
    /\ rd_hdus = <<>>
    /\ rd_header = EmptyHeader
    /\ rd_image = None
    /\ rd_params = None

\* the window before a folder is opened
AppClosed ==
    /\ current_folder = None
    /\ fp_files = <<>>
    /\ fp_widgets = <<>>
    /\ fp_selected = {}
    /\ fp_metrics = <<>>
    /\ selected_for_deletion = {}
    /\ sel_shared = FALSE
    /\ analysis_results = <<>>
    /\ metrics_shared = FALSE
    /\ has_statistics = FALSE
    /\ plot_points = None
    /\ plot_selected = {}
    /\ delete_count = 0
    /\ is_analyzing = FALSE
    /\ threads = <<>>
    /\ after_queue = <<>>
    /\ trash = {}
    /\ intended = {}
    /\ approved = {}
    /\ app_events = 0

\* no window is open
AppUnused ==
    /\ app_disk = {}
    /\ AppClosed

DetUnused ==
    /\ det_photutils = TRUE
    /\ det_found = <<>>
    /\ det_box_size = DefaultBoxSize
    /\ det_stars = None
    /\ det_psf = None
    /\ det_ecc = None

PipeUnused ==
    /\ pipe_image = <<>>
    /\ pipe_stars = None
    /\ pipe_psf = None
    /\ pipe_result = None

\* an analyzer built on a machine of MaxCpu cores, with a worker count in
\* range and the cap BatchMaxStars
Init ==
    /\ cpu_count = MaxCpu
    /\ num_workers_arg \in {Some(k) : k \in 1..MaxCpu}
    /\ num_workers = InitNumWorkers(cpu_count, num_workers_arg)
    /\ max_stars = BatchMaxStars
    /\ pc = "idle"
    /\ NoBatch
    /\ ReaderUnused
    /\ AppUnused
    /\ DetUnused
    /\ CalcUnused
    /\ PipeUnused

\* the count and the total passed in each other's place
CallbackTotalFirst(n, total, filename, idx) ==
    [completed |-> total, total |-> n, filename |-> filename,
     idx |-> idx, finished |-> Len(finishOrder),
     named_done |-> \E j \in 1..Len(finishOrder) : finishOrder[j] = idx]

\* one invocation of progress_callback.  completed, total, filename are its
\* arguments; idx is the position of the file it names and finished the
\* number of pipelines that had finished when it was invoked
Callback(n, total, filename, idx) ==
    [completed |-> n, total |-> total, filename |-> filename,
     idx |-> idx, finished |-> Len(finishOrder),
     named_done |-> \E j \in 1..Len(finishOrder) : finishOrder[j] = idx]

\* the batch returned for an empty list, with one worker reported
EmptyBatchOneWorker ==
    [total_files |-> 0, results |-> <<>>, statistics |-> <<>>,
     workers_used |-> 1, imaging_params |-> None]

\* the batch returned for an empty list
EmptyBatch ==
    [total_files |-> 0, results |-> <<>>, statistics |-> <<>>,
     workers_used |-> 0, imaging_params |-> None]

\* analyze_files up to the choice of the execution path
EnterAnalyzeFiles(fs, cb, par) ==
    /\ pc = "idle"
    /\ files' = fs
    /\ has_callback' = cb
    /\ use_parallel' = par
    /\ UNCHANGED <<ctorVars, appVars, detVars, readerVars, calcVars, pipeVars, num_workers, results,
                   completed, finishOrder, cbLog, outliers>>
    /\ IF Len(fs) = 0
       THEN /\ ret' = Some(EmptyBatch)
            /\ pc' = "done"
            /\ UNCHANGED <<mode, image_scale, imaging_params, workers, task,
                           headerReads, exc>>
       ELSE LET hp == GetImagingParams(fs[1].path)
            IN  /\ headerReads' = <<fs[1].path>>
                /\ IF hp.raised
                   THEN /\ exc' = Some(hp.error)
                        /\ pc' = "raised"
                        /\ UNCHANGED <<mode, image_scale, imaging_params, workers,
                                       task, ret>>
                   ELSE /\ imaging_params' = Some(hp.params)
                        /\ image_scale' = hp.params.image_scale
                        /\ UNCHANGED <<ret, exc>>
                        /\ IF RunsParallel(fs, par, num_workers)
                           THEN /\ mode' = "parallel"
                                /\ workers' = num_workers
                                /\ task' = [k \in 1..Len(fs) |-> "queued"]
                                /\ pc' = "par"
                           ELSE /\ mode' = "sequential"
                                /\ workers' = 1
                                /\ task' = task
                                /\ pc' = "seq_cb"

\* analyze_files called with a list of file dicts
CallAnalyzeFiles(fs, cb, par) ==
    /\ EnterAnalyzeFiles(fs, cb, par)
    /\ folder' = folder

\* analyze_folder: load_folder, then analyze_files on what it lists; the
\* batch it returns carries the folder
CallAnalyzeFolder(dir, cb, par) ==
    /\ EnterAnalyzeFiles(LoadFolder(dir), cb, par)
    /\ folder' = Some(dir)

\* what the batch returns once `rs` holds every file's result
Return(rs) ==
    IF Len(rs) = Total
    THEN /\ pc' = "done"
         /\ ret' = Some(BatchResult(Total, rs, workers, imaging_params))
    ELSE /\ ret' = ret
         /\ pc' = IF mode = "parallel" THEN "par" ELSE "seq_cb"

\* the 0-based loop index reported as it is
SeqProgressIndex(i) == i

\* the number _analyze_sequential reports for the file at 0-based position i
SeqProgressNumber(i) == i + 1

\* _analyze_sequential, top of an iteration: the callback
SeqCallback ==
    /\ pc = "seq_cb"
    /\ LET k == Len(results) + 1
       IN  cbLog' = IF has_callback
                    THEN Append(cbLog, Callback(SeqProgressNumber(k - 1), Total,
                                                files[k].filename, k))
                    ELSE cbLog
    /\ pc' = "seq_analyze"
    /\ UNCHANGED <<ctorVars, appVars, detVars, readerVars, calcVars, pipeVars, num_workers, folder,
                   files, use_parallel, has_callback,
                   mode, image_scale, imaging_params, workers, results,
                   completed, task, finishOrder, headerReads, ret, exc, outliers>>

\* _analyze_sequential, rest of the iteration: analyze_file in try/except;
\* after the last file, the statistics and the return of analyze_files
SeqAnalyze ==
    /\ pc = "seq_analyze"
    /\ LET k == Len(results) + 1
           r == AnalyzeFile(files[k].path, image_scale)
           rs == Append(results, SequentialResult(files[k], image_scale))
       IN  /\ results' = rs
           /\ headerReads' = IF r.header_read
                             THEN Append(headerReads, files[k].path)
                             ELSE headerReads
           /\ finishOrder' = Append(finishOrder, k)
           /\ Return(rs)
    /\ UNCHANGED <<ctorVars, appVars, detVars, readerVars, calcVars, pipeVars, num_workers, folder,
                   files, use_parallel, has_callback,
                   mode, image_scale, imaging_params, workers, completed, task,
                   cbLog, exc, outliers>>

\* the pool hands its tasks out in the order of args_list, one per free
\* worker: the tasks in progress are the first `workers` unfinished ones
Running(k) ==
    /\ task[k] = "queued"
    /\ Cardinality({j \in 1..(k - 1) : task[j] = "queued"}) < workers

\* a worker finishes _analyze_single_file for file k
ParFinish(k) ==
    /\ pc = "par"
    /\ Running(k)
    /\ task' = [task EXCEPT ![k] = "finished"]
    /\ finishOrder' = Append(finishOrder, k)
    /\ UNCHANGED <<ctorVars, appVars, detVars, readerVars, calcVars, pipeVars, num_workers, folder,
                   files, use_parallel, has_callback, pc,
                   mode, image_scale, imaging_params, workers, results,
                   completed, headerReads, cbLog, ret, exc, outliers>>

\* imap_unordered: any finished result is handed over
ImapUnorderedReady(k) == task[k] = "finished"

\* pool.imap: the next result handed to the loop is the one of the next input
ImapReady(k) ==
    /\ task[k] = "finished"
    /\ \A j \in 1..(k - 1) : task[j] = "yielded"

\* _analyze_parallel, one iteration of the loop over pool.imap; after the
\* last result, the statistics and the return of analyze_files
ParYield(k) ==
    /\ pc = "par"
    /\ ImapReady(k)
    /\ LET result == AnalyzeSingleFile(files[k].path, image_scale)
           rs == Append(results, result)
       IN  /\ task' = [task EXCEPT ![k] = "yielded"]
           /\ completed' = completed + 1
           /\ results' = rs
           /\ cbLog' = IF has_callback
                       THEN Append(cbLog, Callback(completed + 1, Total,
                                                   result.filename, k))
                       ELSE cbLog
           /\ Return(rs)
    /\ UNCHANGED <<ctorVars, appVars, detVars, readerVars, calcVars, pipeVars, num_workers, folder,
                   files, use_parallel, has_callback,
                   mode, image_scale, imaging_params, workers, finishOrder,
                   headerReads, exc, outliers>>

\* get_outliers on the results of the returned batch (the call is stateless:
\* one call per batch shows all it can do)
GetOutliers(metric, sigma_threshold) ==
    /\ pc = "done"
    /\ ret # None
    /\ outliers = None
    /\ LET out == GetOutliersOf(ret[1].results, metric, sigma_threshold)
       IN  outliers' = Some([metric |-> metric, sigma_threshold |-> sigma_threshold,
                             raised |-> out.raised, idx |-> out.idx])
    /\ UNCHANGED <<ctorVars, appVars, detVars, readerVars, calcVars, pipeVars, num_workers, folder,
                   files, use_parallel, has_callback, pc,
                   mode, image_scale, imaging_params, workers, results,
                   completed, task, finishOrder, headerReads, cbLog, ret, exc>>

Next ==
    \/ \E fs \in FileLists, cb \in BOOLEAN, par \in BOOLEAN :
          CallAnalyzeFiles(fs, cb, par)
    \/ \E dir \in Directories, cb \in BOOLEAN, par \in BOOLEAN :
          CallAnalyzeFolder(dir, cb, par)
    \/ SeqCallback
    \/ SeqAnalyze
    \/ \E k \in 1..Total : ParFinish(k)
    \/ \E k \in 1..Total : ParYield(k)
    \/ \E m \in OutlierMetrics, t \in Thresholds : GetOutliers(m, t)

Spec == Init /\ [][Next]_vars

(***************************************************************************)
(* The constructor, followed by batches on the analyzer it built.          *)
(***************************************************************************)
\* the max_stars arguments the constructor is tried with: negative, zero
\* and the cap of the batch model
MaxStarsArgs == {0 - 1, 0, BatchMaxStars}

ConstructInit ==
    /\ cpu_count \in 1..MaxCores
    /\ num_workers_arg \in WorkerArgs
    /\ num_workers = 0
    /\ max_stars \in MaxStarsArgs
    /\ pc = "new"
    /\ NoBatch
    /\ ReaderUnused
    /\ AppUnused
    /\ DetUnused
    /\ CalcUnused
    /\ PipeUnused

\* SubframeAnalyzer.__init__
Construct ==
    /\ pc = "new"
    /\ num_workers' = InitNumWorkers(cpu_count, num_workers_arg)
    /\ pc' = "idle"
    /\ UNCHANGED <<ctorVars, appVars, detVars, readerVars, calcVars, pipeVars, folder, files, use_parallel,
                   has_callback, mode, image_scale, imaging_params, workers,
                   results, completed, task, finishOrder, headerReads, cbLog,
                   ret, exc, outliers>>

\* the batches the built analyzer is given: none, one, two and three files
ConstructBatches ==
    LET fs == <<FileInfo(<<"A", "f1.fits">>), FileInfo(<<"A", "f5.fits">>),
                FileInfo(<<"A", "f2.fits">>)>>
    IN  {SubSeq(fs, 1, k) : k \in 0..Len(fs)}

ConstructNext ==
    \/ Construct
    \/ \E fs \in ConstructBatches, par \in BOOLEAN :
          CallAnalyzeFiles(fs, FALSE, par)
    \/ SeqCallback
    \/ SeqAnalyze
    \/ \E k \in 1..Total : ParFinish(k)
    \/ \E k \in 1..Total : ParYield(k)

ConstructSpec == ConstructInit /\ [][ConstructNext]_vars

(***************************************************************************)
(* StatisticsCalculator on its own: calculate_bands, get_outlier_indices   *)
(* and is_outlier on an array of floats (finite values, NaN and inf).      *)
(***************************************************************************)
\* the finite values an array is built from (1.0, 1.2 and 4.0)
CalcNumbers == {10, 12, 40}

CalcElements == {NaN, Inf} \cup {Num(v) : v \in CalcNumbers}

CalcInit ==
    /\ calc_values \in SeqsUpTo(CalcElements, MaxValues)
    /\ calc_bands = None
    /\ calc_outliers = None
    /\ calc_verdict = None
    /\ cpu_count = MaxCpu
    /\ num_workers_arg = None
    /\ num_workers = InitNumWorkers(cpu_count, num_workers_arg)
    /\ max_stars = BatchMaxStars
    /\ pc = "idle"
    /\ NoBatch
    /\ ReaderUnused
    /\ AppUnused
    /\ DetUnused
    /\ PipeUnused

\* calculate_bands(values)
CallCalculateBands ==
    /\ calc_bands = None
    /\ calc_bands' = Some(CalculateBands(calc_values))
    /\ UNCHANGED <<calc_values, calc_outliers, calc_verdict,
                   ctorVars, appVars, detVars, readerVars, pipeVars, batchVars>>

\* get_outlier_indices(values, sigma_threshold)
CallGetOutlierIndices(sigma_threshold) ==
    /\ calc_outliers = None
    /\ LET out == GetOutlierIndices(calc_values, sigma_threshold)
       IN  calc_outliers' = Some([sigma_threshold |-> sigma_threshold,
                                  raised |-> out.raised, idx |-> out.idx])
    /\ UNCHANGED <<calc_values, calc_bands, calc_verdict,
                   ctorVars, appVars, detVars, readerVars, pipeVars, batchVars>>

\* is_outlier(value, stats, sigma_threshold) on the stats calculate_bands
\* returned
CallIsOutlier(value, sigma_threshold) ==
    /\ calc_bands # None
    /\ calc_verdict = None
    /\ calc_verdict' = Some([value |-> value,
                             sigma_threshold |-> sigma_threshold,
                             outlier |-> IsOutlier(value, calc_bands[1],
                                                   sigma_threshold)])
    /\ UNCHANGED <<calc_values, calc_bands, calc_outliers,
                   ctorVars, appVars, detVars, readerVars, pipeVars, batchVars>>

CalcNext ==
    \/ CallCalculateBands
    \/ \E t \in Thresholds : CallGetOutlierIndices(t)
    \/ \E v \in CalcNumbers, t \in Thresholds : CallIsOutlier(v, t)

CalcSpec == CalcInit /\ [][CalcNext]_vars

(***************************************************************************)
(* The pipeline of one file on its own, after load_file: detect_stars,     *)
(* fit_psf, calculate_all and the result dict, for a detector with a cap   *)
(* of at least one star.                                                   *)
(***************************************************************************)
PipeInit ==
    /\ pipe_image \in SeqsUpTo(SourceKinds, MaxSources)
    /\ max_stars \in 1..MaxStars
    /\ pipe_stars = None
    /\ pipe_psf = None
    /\ pipe_result = None
    /\ cpu_count = MaxCpu
    /\ num_workers_arg = None
    /\ num_workers = InitNumWorkers(cpu_count, num_workers_arg)
    /\ pc = "idle"
    /\ NoBatch
    /\ ReaderUnused
    /\ AppUnused
    /\ DetUnused
    /\ CalcUnused

\* stars = detector.detect_stars(image)
PipeDetect ==
    /\ pipe_stars = None
    /\ pipe_stars' = Some(DetectStars(pipe_image, max_stars))
    /\ UNCHANGED <<pipe_image, pipe_psf, pipe_result,
                   ctorVars, appVars, detVars, readerVars, calcVars, batchVars>>

\* psf_results = detector.fit_psf(image, stars)
PipeFit ==
    /\ pipe_stars # None
    /\ pipe_psf = None
    /\ pipe_psf' = Some(FitPsf(pipe_stars[1], DefaultBoxSize))
    /\ UNCHANGED <<pipe_image, pipe_stars, pipe_result,
                   ctorVars, appVars, detVars, readerVars, calcVars, batchVars>>

\* metrics = calculate_all(...) and the result dict, as far as it counts stars
PipeResult ==
    /\ pipe_psf # None
    /\ pipe_result = None
    /\ pipe_result' =
          Some([metrics |-> [star_count |-> CalculateStarCount(pipe_psf[1])],
                star_count_detected |-> Len(pipe_stars[1]),
                star_count_fitted |-> Len(pipe_psf[1])])
    /\ UNCHANGED <<pipe_image, pipe_stars, pipe_psf,
                   ctorVars, appVars, detVars, readerVars, calcVars, batchVars>>

PipeNext == PipeDetect \/ PipeFit \/ PipeResult

PipeSpec == PipeInit /\ [][PipeNext]_vars

(***************************************************************************)
(* FITSReader on its own: load_file and get_imaging_params on one          *)
(* container, whose data units have no data or data of one to four         *)
(* dimensions and whose header holds numbers, strings and absent keys.     *)
(***************************************************************************)
MaxHdus == 2

\* len(hdu.data.shape) of a data unit, 0 for a unit without data
HduDims == 0..4

\* the headers tried: the first pixel-size and focal-length keys hold a
\* string float() rejects, zero (as a number or spelled out), a negative or
\* a positive number, a later key of each list holds a positive number
ReaderHeaders ==
    {[k \in HeaderKeys |->
         IF k = "XPIXSZ" THEN a ELSE IF k = "PIXSIZE" THEN b
         ELSE IF k = "FOCALLEN" THEN c ELSE IF k = "FL" THEN d
         ELSE IF k = "APTDIA" THEN e ELSE None] :
      a \in {None, Some(HText), Some(HNum(0)), Some(HStr(0)), Some(HNum(4))},
      b \in {None, Some(HNum(3))},
      c \in {None, Some(HText), Some(HNum(0)), Some(HNum(0 - 500)),
             Some(HNum(500))},
      d \in {None, Some(HNum(250))},
      e \in {None, Some(HStr(80))}}

ReaderInit ==
    /\ rd_exists \in BOOLEAN
    /\ rd_hdus \in (IF rd_exists THEN SeqsUpTo(HduDims, MaxHdus) ELSE {<<>>})
    /\ rd_header \in (IF rd_exists THEN ReaderHeaders ELSE {EmptyHeader})
    /\ rd_image = None
    /\ rd_params = None
    /\ DetUnused
    /\ AppUnused
    /\ cpu_count = MaxCpu
    /\ num_workers_arg = None
    /\ num_workers = InitNumWorkers(cpu_count, num_workers_arg)
    /\ max_stars = BatchMaxStars
    /\ pc = "idle"
    /\ NoBatch
    /\ CalcUnused
    /\ PipeUnused

\* load_file(filepath)
CallLoadFile ==
    /\ rd_image = None
    /\ rd_image' = Some(LoadContainer(rd_exists, rd_hdus))
    /\ UNCHANGED <<rd_exists, rd_hdus, rd_header, rd_params,
                   ctorVars, appVars, detVars, calcVars, pipeVars, batchVars>>

\* get_imaging_params(filepath)
CallGetImagingParams ==
    /\ rd_params = None
    /\ rd_params' = Some(ParamsOfContainer(rd_exists, rd_header))
    /\ UNCHANGED <<rd_exists, rd_hdus, rd_header, rd_image,
                   ctorVars, appVars, detVars, calcVars, pipeVars, batchVars>>

ReaderNext == CallLoadFile \/ CallGetImagingParams

ReaderSpec == ReaderInit /\ [][ReaderNext]_vars

(***************************************************************************)
(* StarDetector on its own: detect_stars, fit_psf and, on the PSFResults,  *)
(* calculate_eccentricity, for a detector with a cap of at least one star  *)
(* on an image of ImageWidth x ImageHeight pixels.                         *)
(***************************************************************************)
MaxDetections == 3

\* the sources an image can hold, each with a flux of its own: in the
\* middle, on the half pixels that round to 8, near the left and the lower
\* edge; with a round fit, an elongated one, one too wide for the box, and
\* none
DetSources ==
    { Star(16, 16, 50, 200, Fit(8, 8, 190)),
      Star(15, 14, 40, 180, Fit(6, 12, 170)),
      Star(13, 16, 30, 150, Fit(8, 32, 140)),
      Star(16, 19, 20, 120, None),
      Star(17, 17, 60, 110, None),
      Star(14, 18, 10, 100, Fit(12, 6, 90)) }

\* the box_size arguments tried: odd and even
BoxSizeArgs == {13, 14}

DetInit ==
    /\ det_photutils \in BOOLEAN
    /\ det_found \in {f \in SeqsUpTo(DetSources, MaxDetections) :
                         \A i, j \in 1..Len(f) : f[i] = f[j] => i = j}
    /\ det_box_size \in BoxSizeArgs
    /\ max_stars \in 1..MaxStars
    /\ det_stars = None
    /\ det_psf = None
    /\ det_ecc = None
    /\ cpu_count = MaxCpu
    /\ num_workers_arg = None
    /\ num_workers = InitNumWorkers(cpu_count, num_workers_arg)
    /\ pc = "idle"
    /\ NoBatch
    /\ ReaderUnused
    /\ AppUnused
    /\ CalcUnused
    /\ PipeUnused

\* detect_stars(image)
CallDetectStars ==
    /\ det_stars = None
    /\ det_stars' = Some(DetectStarsOf(det_found, max_stars, det_photutils))
    /\ UNCHANGED <<det_photutils, det_found, det_box_size, det_psf, det_ecc,
                   ctorVars, appVars, readerVars, calcVars, pipeVars, batchVars>>

\* fit_psf(image, stars) on the stars detect_stars returned
CallFitPsf ==
    /\ det_stars # None
    /\ det_psf = None
    /\ det_psf' = Some(FitPsf(det_stars[1], BoxSize(det_box_size)))
    /\ UNCHANGED <<det_photutils, det_found, det_box_size, det_stars, det_ecc,
                   ctorVars, appVars, readerVars, calcVars, pipeVars, batchVars>>

\* calculate_eccentricity(psf_results)
CallCalculateEccentricity ==
    /\ det_psf # None
    /\ det_ecc = None
    /\ det_ecc' = Some(CalculateEccentricity(det_psf[1]))
    /\ UNCHANGED <<det_photutils, det_found, det_box_size, det_stars, det_psf,
                   ctorVars, appVars, readerVars, calcVars, pipeVars, batchVars>>

DetNext == CallDetectStars \/ CallFitPsf \/ CallCalculateEccentricity

DetSpec == DetInit /\ [][DetNext]_vars

(***************************************************************************)
(* The application: one window, the user's events on it (each handled to   *)
(* its end by the Tk main loop), the background thread of an analysis and  *)
(* the callbacks it hands to the main loop with self.after.  A file can    *)
(* appear in folder A behind the application's back.                       *)
(***************************************************************************)
MaxEvents == 7

\* the folders A and B as the window first finds them
AppDiskInit == {<<"A", "f2.fits">>, <<"A", "f5.fits">>, <<"B", "f2.fits">>}

\* the most files a folder comes to hold
MaxRows == 3

\* the file that appears later; it sorts before the others of A
AppLatePath == <<"A", "f1.fits">>

\* one entry of results as the window uses it: metrics is None for a file
\* that could not be read
AppResult(path, ok) ==
    [filepath |-> path, filename |-> PathName(path), has_metrics |-> ok]

\* one entry of file_widgets as _create_file_entry builds it
FileEntry(index) == [index |-> index, var |-> FALSE, marker |-> FALSE]

\* a list without the positions in D
Keep(s, D) ==
    LET Stays(i) == i \notin D
        idx == SelectSeq(Indices(Len(s)), Stays)
    IN  [k \in 1..Len(idx) |-> s[idx[k]]]

AppInit ==
    /\ app_disk = AppDiskInit
    /\ AppClosed
    /\ cpu_count = MaxCpu
    /\ num_workers_arg = None
    /\ num_workers = InitNumWorkers(cpu_count, num_workers_arg)
    /\ max_stars = BatchMaxStars
    /\ pc = "idle"
    /\ NoBatch
    /\ DetUnused
    /\ CalcUnused
    /\ PipeUnused
    /\ rd_exists = FALSE
    /\ rd_hdus = <<>>
    /\ rd_header = EmptyHeader
    /\ rd_image = None
    /\ rd_params = None

\* what no event of the window touches
AppRest == <<ctorVars, detVars, readerVars, calcVars, pipeVars, batchVars>>

UserEvent ==
    /\ app_events < MaxEvents
    /\ app_events' = app_events + 1

\* a file appears in folder A
FileAppears ==
    /\ AppLatePath \notin app_disk
    /\ AppLatePath \notin trash
    /\ app_disk' = app_disk \cup {AppLatePath}
    /\ UNCHANGED <<current_folder, fp_files, fp_widgets, fp_selected, fp_metrics,
                   selected_for_deletion, sel_shared, analysis_results,
                   metrics_shared, has_statistics, plot_points, plot_selected,
                   delete_count, is_analyzing, threads, after_queue, trash,
                   intended, approved, app_events, AppRest>>

\* on_open_folder with the folder the dialog returns, then _load_files
OnOpenFolder(dir) ==
    /\ UserEvent
    /\ current_folder' = Some(dir)
    /\ LET loaded == LoadFolderOn(app_disk, dir)
       IN  IF Len(loaded) = 0
           THEN UNCHANGED <<fp_files, fp_widgets, fp_selected, fp_metrics,
                            selected_for_deletion, sel_shared, analysis_results,
                            metrics_shared, has_statistics, plot_points,
                            plot_selected, delete_count, intended>>
           ELSE /\ fp_files' = loaded
                /\ fp_widgets' = [i \in 1..Len(loaded) |-> FileEntry(i)]
                /\ fp_selected' = {}
                /\ fp_metrics' = <<>>
                /\ selected_for_deletion' = {}
                /\ sel_shared' = FALSE
                /\ analysis_results' = <<>>
                /\ metrics_shared' = FALSE
                /\ has_statistics' = FALSE
                /\ plot_points' = None
                /\ plot_selected' = {}
                /\ delete_count' = 0
                /\ intended' = {}
    /\ UNCHANGED <<app_disk, is_analyzing, threads, after_queue, trash,
                   approved, AppRest>>

\* on_analyze: a thread is started unless no file is loaded or an analysis
\* is under way
OnAnalyze ==
    /\ UserEvent
    /\ IF Len(fp_files) = 0 \/ is_analyzing
       THEN UNCHANGED <<is_analyzing, threads>>
       ELSE /\ is_analyzing' = TRUE
            /\ threads' = Append(threads, [id |-> app_events', pc |-> "started",
                                           files |-> <<>>])
    /\ UNCHANGED <<app_disk, current_folder, fp_files, fp_widgets, fp_selected,
                   fp_metrics, selected_for_deletion, sel_shared,
                   analysis_results, metrics_shared, has_statistics, plot_points,
                   plot_selected, delete_count, after_queue, trash, intended,
                   approved, AppRest>>

\* _run_analysis up to the scan: analyze_folder(self.current_folder) reads
\* the folder again
ThreadScan(k) ==
    /\ threads[k].pc = "started"
    /\ current_folder # None
    /\ threads' = [threads EXCEPT
                      ![k].pc = "scanned",
                      ![k].files = LoadFolderOn(app_disk, current_folder[1])]
    /\ UNCHANGED <<app_disk, current_folder, fp_files, fp_widgets, fp_selected,
                   fp_metrics, selected_for_deletion, sel_shared,
                   analysis_results, metrics_shared, has_statistics, plot_points,
                   plot_selected, delete_count, is_analyzing, after_queue, trash,
                   intended, approved, app_events, AppRest>>

\* _run_analysis from analyze_files on: the header of the first file is
\* read outside any try, so a first file that is gone raises and the except
\* clause hands _analysis_error to the main loop; otherwise every file gets
\* a result and _analysis_complete is handed over
ThreadAnalyze(k) ==
    /\ threads[k].pc = "scanned"
    /\ LET fs == threads[k].files
       IN  IF Len(fs) > 0 /\ fs[1].path \notin app_disk
           THEN /\ threads' = [threads EXCEPT ![k].pc = "except"]
                /\ after_queue' = Append(after_queue,
                                         [kind |-> "error", id |-> threads[k].id,
                                          results |-> <<>>])
           ELSE /\ threads' = Keep(threads, {k})
                /\ after_queue' =
                      Append(after_queue,
                             [kind |-> "complete", id |-> threads[k].id,
                              results |-> [i \in 1..Len(fs) |->
                                  AppResult(fs[i].path, fs[i].path \in app_disk)]])
    /\ UNCHANGED <<app_disk, current_folder, fp_files, fp_widgets, fp_selected,
                   fp_metrics, selected_for_deletion, sel_shared,
                   analysis_results, metrics_shared, has_statistics, plot_points,
                   plot_selected, delete_count, is_analyzing, trash, intended,
                   approved, app_events, AppRest>>

\* the except clause of _run_analysis ends: its name e is unbound and the
\* thread is over
ThreadExit(k) ==
    /\ threads[k].pc = "except"
    /\ threads' = Keep(threads, {k})
    /\ UNCHANGED <<app_disk, current_folder, fp_files, fp_widgets, fp_selected,
                   fp_metrics, selected_for_deletion, sel_shared,
                   analysis_results, metrics_shared, has_statistics, plot_points,
                   plot_selected, delete_count, is_analyzing, after_queue, trash,
                   intended, approved, app_events, AppRest>>

\* the values and filenames _update_plot hands to plot_metric
PlotPoints(rs) ==
    [i \in 1..Len(rs) |->
        [path |-> rs[i].filepath, nan |-> ~rs[i].has_metrics]]

\* the main loop runs the oldest callback: _analysis_complete(results), or
\* the lambda around _analysis_error(str(e)), which finds e only while the
\* thread is still inside its except clause and raises NameError afterwards
RunCallback ==
    /\ after_queue # <<>>
    /\ after_queue' = Tail(after_queue)
    /\ LET cb == after_queue[1]
           bound == \E k \in 1..Len(threads) :
                       threads[k].id = cb.id /\ threads[k].pc = "except"
           stats == \E i \in 1..Len(cb.results) : cb.results[i].has_metrics
       IN  IF cb.kind = "complete"
           THEN /\ is_analyzing' = FALSE
                /\ analysis_results' = cb.results
                /\ has_statistics' = stats
                /\ fp_metrics' = cb.results
                /\ metrics_shared' = TRUE
                /\ IF Len(cb.results) > 0 /\ stats
                   THEN /\ plot_points' = Some(PlotPoints(cb.results))
                        /\ plot_selected' = selected_for_deletion
                   ELSE UNCHANGED <<plot_points, plot_selected>>
           ELSE /\ is_analyzing' = (IF bound THEN FALSE ELSE is_analyzing)
                /\ UNCHANGED <<analysis_results, has_statistics, fp_metrics,
                               metrics_shared, plot_points, plot_selected>>
    /\ UNCHANGED <<app_disk, current_folder, fp_files, fp_widgets, fp_selected,
                   selected_for_deletion, sel_shared, delete_count, threads,
                   trash, intended, approved, app_events, AppRest>>

\* a click on the checkbox of row p: Tk flips its variable and calls the
\* command, which carries the index the row was created with
OnCheckboxToggle(p) ==
    /\ UserEvent
    /\ p \in 1..Len(fp_widgets)
    /\ LET flipped == [fp_widgets EXCEPT ![p].var = ~@]
           index == fp_widgets[p].index
       IN  /\ intended' = (IF flipped[p].var
                           THEN intended \cup {fp_files[p].path}
                           ELSE intended \ {fp_files[p].path})
           /\ IF index > Len(fp_widgets)
              THEN /\ fp_widgets' = flipped
                   /\ UNCHANGED <<fp_selected, selected_for_deletion, sel_shared,
                                  delete_count, plot_selected>>
              ELSE LET is_selected == flipped[index].var
                       sel == IF is_selected THEN fp_selected \cup {index}
                              ELSE fp_selected \ {index}
                   IN  /\ fp_widgets' = [flipped EXCEPT ![index].marker = is_selected]
                       /\ fp_selected' = sel
                       /\ selected_for_deletion' = sel
                       /\ sel_shared' = TRUE
                       /\ delete_count' = Cardinality(sel)
                       /\ plot_selected' = sel
    /\ UNCHANGED <<app_disk, current_folder, fp_files, fp_metrics,
                   analysis_results, metrics_shared, has_statistics, plot_points,
                   is_analyzing, threads, after_queue, trash, approved, AppRest>>

\* set_selected(indices) on the widgets, with cur the content of
\* self.selected_indices while it runs
SetSelected(widgets, cur, indices) ==
    LET off == [k \in 1..Len(widgets) |->
                   IF k \in cur /\ k \notin indices
                   THEN [widgets[k] EXCEPT !.var = FALSE, !.marker = FALSE]
                   ELSE widgets[k]]
    IN  [k \in 1..Len(widgets) |->
            IF k \in indices /\ ~off[k].var
            THEN [off[k] EXCEPT !.var = TRUE, !.marker = TRUE]
            ELSE off[k]]

\* _on_click on point i of the plot, then on_plot_point_click: the change of
\* selected_for_deletion is made in place, so it shows in the FilePanel's
\* set as well when the two are one object
OnPlotClick(i) ==
    /\ UserEvent
    /\ plot_points # None
    /\ i \in 1..Len(plot_points[1])
    /\ ~plot_points[1][i].nan
    /\ LET is_now_selected == i \notin plot_selected
           sel == IF is_now_selected THEN selected_for_deletion \cup {i}
                  ELSE selected_for_deletion \ {i}
           cur == IF sel_shared THEN sel ELSE fp_selected
       IN  /\ plot_selected' = (IF is_now_selected THEN plot_selected \cup {i}
                                ELSE plot_selected \ {i})
           /\ selected_for_deletion' = sel
           /\ fp_widgets' = SetSelected(fp_widgets, cur, sel)
           /\ fp_selected' = sel
           /\ sel_shared' = FALSE
           /\ delete_count' = Cardinality(sel)
           /\ intended' = (IF is_now_selected
                           THEN intended \cup {plot_points[1][i].path}
                           ELSE intended \ {plot_points[1][i].path})
    /\ UNCHANGED <<app_disk, current_folder, fp_files, fp_metrics,
                   analysis_results, metrics_shared, has_statistics, plot_points,
                   is_analyzing, threads, after_queue, trash, approved, AppRest>>

\* the Clear button: _deselect_all
OnClear ==
    /\ UserEvent
    /\ fp_widgets' = [k \in 1..Len(fp_widgets) |->
                         IF k \in fp_selected
                         THEN [fp_widgets[k] EXCEPT !.var = FALSE, !.marker = FALSE]
                         ELSE fp_widgets[k]]
    /\ fp_selected' = {}
    /\ selected_for_deletion' = {}
    /\ sel_shared' = TRUE
    /\ delete_count' = 0
    /\ plot_selected' = {}
    /\ intended' = {}
    /\ UNCHANGED <<app_disk, current_folder, fp_files, fp_metrics,
                   analysis_results, metrics_shared, has_statistics, plot_points,
                   is_analyzing, threads, after_queue, trash, approved, AppRest>>

\* the selection remove_files computes for the rows that stay
ShiftSelected(selected, removed) ==
    {old - Cardinality({r \in removed : r < old}) :
        old \in {o \in selected : o \notin removed}}

\* the Delete button (enabled while the count is above 0), confirmed, then
\* _delete_files; send2trash raises for the rows in fail
OnDeleteSelected(fail) ==
    /\ UserEvent
    /\ delete_count > 0
    /\ selected_for_deletion # {}
    /\ LET cands == {idx \in selected_for_deletion : idx <= Len(fp_files)}
           deleted == cands \ fail
           gone == {fp_files[idx].path : idx \in deleted}
           in_metrics == {idx \in deleted : idx <= Len(fp_metrics)}
       IN  /\ fail \subseteq cands
           /\ \A idx \in cands : fp_files[idx].path \notin app_disk => idx \in fail
           /\ approved' = approved \cup intended
           /\ app_disk' = app_disk \ gone
           /\ trash' = trash \cup gone
           /\ IF deleted = {}
              THEN UNCHANGED <<fp_files, fp_widgets, fp_selected, fp_metrics,
                               selected_for_deletion, sel_shared,
                               analysis_results, plot_selected, delete_count,
                               intended>>
              ELSE /\ fp_widgets' = Keep(fp_widgets, deleted)
                   /\ fp_files' = Keep(fp_files, deleted)
                   /\ fp_metrics' = Keep(fp_metrics, in_metrics)
                   /\ analysis_results' = (IF metrics_shared
                                           THEN Keep(fp_metrics, in_metrics)
                                           ELSE analysis_results)
                   /\ plot_selected' = ShiftSelected(fp_selected, deleted)
                   /\ fp_selected' = {}
                   /\ selected_for_deletion' = {}
                   /\ sel_shared' = TRUE
                   /\ delete_count' = 0
                   /\ intended' = {}
    /\ UNCHANGED <<current_folder, metrics_shared, has_statistics, plot_points,
                   is_analyzing, threads, after_queue, AppRest>>

AppNext ==
    \/ FileAppears
    \/ \E dir \in Directories : OnOpenFolder(dir)
    \/ OnAnalyze
    \/ \E k \in 1..Len(threads) : ThreadScan(k)
    \/ \E k \in 1..Len(threads) : ThreadAnalyze(k)
    \/ \E k \in 1..Len(threads) : ThreadExit(k)
    \/ RunCallback
    \/ \E p \in 1..Len(fp_widgets) : OnCheckboxToggle(p)
    \/ \E i \in 1..MaxRows : OnPlotClick(i)
    \/ OnClear
    \/ \E fail \in SUBSET selected_for_deletion : OnDeleteSelected(fail)

AppSpec == AppInit /\ [][AppNext]_vars

(***************************************************************************)
(* Properties                                                              *)
(***************************************************************************)
Returned == pc = "done"

Failed(r) == r.metrics = None

\* position of file position i in the order of completion (0: not finished)
FinishRank(i) ==
    IF \E j \in 1..Len(finishOrder) : finishOrder[j] = i
    THEN CHOOSE j \in 1..Len(finishOrder) : finishOrder[j] = i
    ELSE 0

\* C1: whenever analyze_files returns, in either mode and whatever the order
\* in which the workers finished, total_files and len(results) equal the
\* number of input files and results[i].filepath is the path of files[i];
\* the results collected so far obey the same order while the batch runs.
C1_ResultsFollowInput ==
    /\ \A i \in 1..Len(results) : results[i].filepath = files[i].path
    /\ Returned =>
          /\ ret[1].total_files = Len(files)
          /\ Len(ret[1].results) = Len(files)
          /\ \A i \in 1..Len(files) : ret[1].results[i].filepath = files[i].path

\* a parallel batch of three different files has returned, and the first
\* file was not the first to finish
C1_Witness ==
    /\ Returned
    /\ mode = "parallel"
    /\ Len(files) = 3
    /\ Cardinality({files[i].path : i \in 1..3}) = 3
    /\ finishOrder[1] # 1

\* C2: every FileResult of the sequential path equals the FileResult the
\* parallel worker function produces for the same file and the same batch
\* image scale.
C2_SequentialEqualsParallel ==
    mode = "sequential" =>
        \A k \in 1..Len(results) :
            results[k] = AnalyzeSingleFile(files[k].path, image_scale)

\* C3: no failure of a single file leaves analyze_files; the call returns one
\* result per file, with metrics = null and an error exactly for the failing
\* files.
C3_FailuresContained ==
    /\ pc # "raised"
    /\ exc = None
    /\ (Returned /\ Len(files) > 0) =>
          /\ Len(ret[1].results) = Len(files)
          /\ \A i \in 1..Len(files) :
                LET r == ret[1].results[i]
                IN  IF LoadFile(files[i].path).raised
                    THEN r.metrics = None /\ r.error # None
                    ELSE r.metrics # None /\ r.error = None

\* C4: no header but the first file's is read in a batch, and every
\* fwhm_arcsec is the frame's fwhm under the scale of that header (null when
\* that scale is null).
C4_OneScalePerBatch ==
    Len(files) > 0 =>
        /\ \A j \in 1..Len(headerReads) : headerReads[j] = files[1].path
        /\ \A k \in 1..Len(results) :
              results[k].metrics # None =>
                  results[k].metrics[1].fwhm_arcsec =
                      FwhmArcsec(results[k].metrics[1].fwhm,
                                 GetImagingParams(files[1].path).params.image_scale)

\* C5: with a progress callback, the k-th invocation carries completed = k
\* and total = n; when the batch of n > 0 files returns there have been
\* exactly n invocations, one for each input file, with that file's name.
C5_CallbackCounts ==
    /\ \A k \in 1..Len(cbLog) :
          cbLog[k].completed = k /\ cbLog[k].total = Len(files)
    /\ (Returned /\ has_callback /\ Len(files) > 0) =>
          /\ Len(cbLog) = Len(files)
          /\ \A i \in 1..Len(files) :
                /\ Cardinality({k \in 1..Len(cbLog) : cbLog[k].idx = i}) = 1
                /\ \A k \in 1..Len(cbLog) :
                      cbLog[k].idx = i => cbLog[k].filename = files[i].filename
          /\ \A i \in 1..Len(files) :
                Cardinality({k \in 1..Len(cbLog) :
                                cbLog[k].filename = files[i].filename})
                = Cardinality({j \in 1..Len(files) :
                                files[j].filename = files[i].filename})

\* a parallel batch with a callback has returned; two of its files share a
\* name, and the first file was not the first to finish
C5_Witness ==
    /\ Returned
    /\ has_callback
    /\ mode = "parallel"
    /\ Len(files) = 3
    /\ files[1].path # files[3].path
    /\ files[1].filename = files[3].filename
    /\ finishOrder[1] # 1
    /\ Len(cbLog) = 3

\* C6: at every invocation of the callback the named file's pipeline has
\* finished and completed does not exceed the number of finished pipelines,
\* in sequential and in parallel mode.
C6_CallbackAfterCompletion ==
    \A k \in 1..Len(cbLog) :
        cbLog[k].named_done /\ cbLog[k].completed <= cbLog[k].finished

\* C6 as amended: in parallel mode the callback follows the named file's
\* pipeline and completed never exceeds the number of finished pipelines; in
\* sequential mode the callback for a file precedes that file's pipeline, when
\* exactly the files before it have finished (completed = finished + 1).
C6_CallbackTiming ==
    \A k \in 1..Len(cbLog) :
        /\ mode = "parallel" =>
              cbLog[k].named_done /\ cbLog[k].completed <= cbLog[k].finished
        /\ mode = "sequential" =>
              /\ ~cbLog[k].named_done
              /\ cbLog[k].completed = cbLog[k].finished + 1
              /\ cbLog[k].idx = cbLog[k].completed

\* the sequential loop has reported the last of three files and has not yet
\* analysed it
C6_Witness ==
    /\ mode = "sequential"
    /\ pc = "seq_analyze"
    /\ Len(files) = 3
    /\ Len(cbLog) = 3
    /\ Len(results) = 2

Contributors(rs, metric) ==
    {i \in 1..Len(rs) :
        /\ rs[i].metrics # None
        /\ metric = "fwhm_arcsec" => rs[i].metrics[1].fwhm_arcsec # None}

\* the value of frame i for `metric`, in statistics units
StatValue(rs, metric, i) == MetricValue(rs[i].metrics[1], metric).v * StatScale

\* st describes the values of the frames in P and of no other frame
DescribesOnly(st, rs, metric, P) ==
    LET V(i) == StatValue(rs, metric, i)
        D(i) == Abs(V(i) - st.median)
    IN  /\ P # {}
        /\ \E i \in P : V(i) = st.min
        /\ \E i \in P : V(i) = st.max
        /\ \A i \in P : st.min <= V(i) /\ V(i) <= st.max
        /\ 2 * Cardinality({i \in P : V(i) < st.median}) <= Cardinality(P)
        /\ 2 * Cardinality({i \in P : V(i) > st.median}) <= Cardinality(P)
        /\ 2 * Cardinality({i \in P : D(i) < st.mad}) <= Cardinality(P)
        /\ 2 * Cardinality({i \in P : D(i) > st.mad}) <= Cardinality(P)

\* the statistics are those of the frames with metrics, and empty without any
FromValidFramesOnly(b) ==
    /\ (\A i \in 1..Len(b.results) : Failed(b.results[i])) => b.statistics = <<>>
    /\ (\E i \in 1..Len(b.results) : ~Failed(b.results[i])) =>
          \A k \in 1..Len(MetricNames) : MetricNames[k] \in DOMAIN b.statistics
    /\ \A metric \in DOMAIN b.statistics :
          DescribesOnly(b.statistics[metric], b.results, metric,
                        Contributors(b.results, metric))

\* the batch of `files` without the file at position k has the statistics of
\* the returned batch, if it returns
SameStatisticsWithout(k) ==
    LET fs == RemoveAt(files, k)
    IN  ~AnalyzeFilesRaises(fs) =>
            AnalyzeFilesStatistics(fs, use_parallel, num_workers) = ret[1].statistics

\* C8: the statistics of a returned batch describe the frames with metrics
\* only; a batch without any has empty statistics; and the batch without any
\* one of its failed files has the same statistics.
C8_FailedFilesLeaveStatistics ==
    (Returned /\ Len(files) > 0) =>
        /\ FromValidFramesOnly(ret[1])
        /\ \A k \in 1..Len(files) :
              Failed(ret[1].results[k]) => SameStatisticsWithout(k)

\* C8 as amended: as C8, for the failed files after the first one (the header
\* of the first file fixes the image scale of the batch, also when that file
\* fails).
C8_StatisticsFromValidOnly ==
    (Returned /\ Len(files) > 0) =>
        /\ ret[1].results = AnalyzeFilesResults(files, use_parallel, num_workers)
        /\ FromValidFramesOnly(ret[1])
        /\ \A k \in 2..Len(files) :
              Failed(ret[1].results[k]) => SameStatisticsWithout(k)

\* a batch has returned with a failed file between two analysed ones, and its
\* statistics are not empty
C8_Witness ==
    /\ Returned
    /\ Len(files) = 3
    /\ ~Failed(ret[1].results[1])
    /\ Failed(ret[1].results[2])
    /\ ~Failed(ret[1].results[3])
    /\ ret[1].results[1].metrics[1].fwhm # ret[1].results[3].metrics[1].fwhm
    /\ "fwhm_arcsec" \in DOMAIN ret[1].statistics

\* the FWHM values of the five-frame scenario, 4.0, 4.1, 3.9, 4.0, 9.5
ScenarioFwhm == <<Num(40), Num(41), Num(39), Num(40), Num(95)>>

\* C9: when get_outliers returns, it returns, in ascending order, exactly the
\* positions of the frames that have a value for the metric with
\* |value - median| > threshold * sigma (strictly), median and sigma being
\* those in the batch statistics of that metric (no position when the batch
\* has no statistics for it); in the five-frame scenario at threshold 2 it
\* returns the position of 9.5 only.
C9_OutliersAgainstStatistics ==
    /\ GetOutlierIndices(ScenarioFwhm, 2) = [raised |-> FALSE, idx |-> <<5>>]
    /\ (outliers # None /\ ~outliers[1].raised) =>
          LET o == outliers[1]
              rs == ret[1].results
              flagged == {o.idx[j] : j \in 1..Len(o.idx)}
          IN  /\ \A j \in 1..(Len(o.idx) - 1) : o.idx[j] < o.idx[j + 1]
              /\ IF o.metric \in DOMAIN ret[1].statistics
                 THEN LET st == ret[1].statistics[o.metric]
                      IN  flagged =
                            {i \in Contributors(rs, o.metric) :
                                Abs(StatValue(rs, o.metric, i) - st.median)
                                > o.sigma_threshold * st.sigma}
                 ELSE flagged = {}

\* get_outliers at threshold 2 returned the last frame of a batch of three
\* and neither of the two different frames before it
C9_Witness ==
    /\ outliers # None
    /\ ~outliers[1].raised
    /\ outliers[1].metric = "fwhm"
    /\ outliers[1].sigma_threshold = 2
    /\ Len(ret[1].results) = 3
    /\ outliers[1].idx = <<3>>
    /\ ret[1].results[1].metrics[1].fwhm # ret[1].results[2].metrics[1].fwhm

\* C10: get_outliers never raises and never returns the position of a frame
\* without metrics or without a value for the metric.
C10_OutliersNeverRaise ==
    outliers # None =>
        /\ ~outliers[1].raised
        /\ \A j \in 1..Len(outliers[1].idx) :
              LET r == ret[1].results[outliers[1].idx[j]]
              IN  /\ r.metrics # None
                  /\ outliers[1].metric \in MetricKeys
                  /\ MetricValue(r.metrics[1], outliers[1].metric).tag = "num"

\* C11: analysing an empty file list, or a directory without a matching
\* file, returns normally: no exception, no worker pool, no header read, no
\* callback, and the batch has total_files = 0, results = [],
\* statistics = {} and workers_used = 0.
C11_EmptyBatchReturns ==
    /\ LoadFolder("B") = <<>>
    /\ (pc \notin {"new", "idle"} /\ files = <<>>) =>
          /\ pc = "done"
          /\ exc = None
          /\ mode = "none"
          /\ task = <<>>
          /\ finishOrder = <<>>
          /\ headerReads = <<>>
          /\ cbLog = <<>>
          /\ ret # None
          /\ ret[1].total_files = 0
          /\ ret[1].results = <<>>
          /\ ret[1].statistics = <<>>
          /\ ret[1].workers_used = 0

\* analyze_folder has returned for the directory that holds no FITS file,
\* called with a callback, in parallel, on an analyzer with two workers
C11_Witness ==
    /\ pc = "done"
    /\ folder = Some("B")
    /\ files = <<>>
    /\ has_callback
    /\ use_parallel
    /\ num_workers > 1
    /\ ret # None

\* C12: a batch of at least one file that gets past the header read runs the
\* parallel path exactly when use_parallel is set, more than one worker is
\* configured and there is more than one file; then workers_used is the
\* configured worker count; otherwise the sequential path runs and
\* workers_used is 1.
C12_PathChoice ==
    (pc \notin {"new", "idle", "raised"} /\ Len(files) > 0) =>
        /\ mode = "parallel" <=>
              (use_parallel /\ num_workers > 1 /\ Len(files) > 1)
        /\ mode = "parallel" =>
              /\ workers = num_workers
              /\ Len(task) = Len(files)
        /\ mode # "parallel" =>
              /\ mode = "sequential"
              /\ workers = 1
              /\ task = <<>>
              /\ completed = 0
        /\ Returned => ret[1].workers_used = workers

\* a batch of a single file, asked to run in parallel on two workers, has
\* returned from the sequential path
C12_Witness ==
    /\ Returned
    /\ use_parallel
    /\ num_workers = 2
    /\ Len(files) = 1
    /\ mode = "sequential"
    /\ ret[1].workers_used = 1

\* the results collected so far and those of the returned batch
ResultLists == {results} \cup (IF ret = None THEN {} ELSE {ret[1].results})

\* C14: in every FileResult, in either mode, metrics is null exactly when
\* error is a (non-null) string, and a result with metrics has
\* star_count_detected and star_count_fitted.
C14_MetricsXorError ==
    \A rs \in ResultLists :
        \A i \in 1..Len(rs) :
            /\ rs[i].metrics = None <=> rs[i].error # None
            /\ rs[i].metrics # None =>
                  /\ rs[i].star_count_detected # None
                  /\ rs[i].star_count_fitted # None

\* a parallel batch has returned with an analysed file and a failed one
C14_Witness ==
    /\ Returned
    /\ mode = "parallel"
    /\ Len(files) = 2
    /\ ~Failed(ret[1].results[1])
    /\ Failed(ret[1].results[2])
    /\ ret[1].results[2].error = Some("No image data found in FITS file")

\* the frames of rs that have a fwhm_arcsec
HasArcsec(r) == r.metrics # None /\ r.metrics[1].fwhm_arcsec # None

\* C19: the statistics of a batch with at least one analysed frame have an
\* entry for fwhm, eccentricity, snr, star_count and background; they have
\* one for fwhm_arcsec exactly when some frame has a non-null fwhm_arcsec,
\* and that entry is computed from the non-null values alone.
C19_ArcsecStatsWhenPresent ==
    (Returned /\ \E i \in 1..Len(files) : ~Failed(ret[1].results[i])) =>
        LET st == ret[1].statistics
            with == SelectSeq(ret[1].results, HasArcsec)
        IN  /\ \A k \in 1..Len(MetricNames) : MetricNames[k] \in DOMAIN st
            /\ DOMAIN st \subseteq MetricKeys
            /\ "fwhm_arcsec" \in DOMAIN st <=> Len(with) > 0
            /\ Len(with) > 0 =>
                  st["fwhm_arcsec"] =
                      CalculateBands([k \in 1..Len(with) |->
                                         Num(with[k].metrics[1].fwhm_arcsec[1])])

\* a batch has returned in which one analysed frame has a fwhm_arcsec and
\* another has none
C19_Witness ==
    /\ Returned
    /\ "fwhm_arcsec" \in DOMAIN ret[1].statistics
    /\ \E i, j \in 1..Len(files) :
          /\ HasArcsec(ret[1].results[i])
          /\ ~Failed(ret[1].results[j])
          /\ ~HasArcsec(ret[1].results[j])

CalcFinite == {calc_values[i].v : i \in {j \in 1..Len(calc_values) :
                                            calc_values[j].tag = "num"}}

\* C15: for an array with at least one finite value, calculate_bands returns
\* sigma > 0, band_2sigma.lo <= band_1sigma.lo <= median <= band_1sigma.hi
\* <= band_2sigma.hi, and min <= median <= max.
C15_BandsNested ==
    (calc_bands # None /\ CalcFinite # {}) =>
        LET b == calc_bands[1]
        IN  /\ b.sigma > 0
            /\ b.band_2sigma[1] <= b.band_1sigma[1]
            /\ b.band_1sigma[1] <= b.median
            /\ b.median <= b.band_1sigma[2]
            /\ b.band_1sigma[2] <= b.band_2sigma[2]
            /\ b.min <= b.median
            /\ b.median <= b.max

\* calculate_bands has returned for an array of two different finite values
\* and a NaN, with a sigma above the floor
C15_Witness ==
    /\ calc_bands # None
    /\ Cardinality(CalcFinite) = 2
    /\ \E i \in 1..Len(calc_values) : calc_values[i] = NaN
    /\ 1000 * calc_bands[1].sigma > ValueScale * StatScale
    /\ calc_bands[1].min < calc_bands[1].max

\* C16: for an array whose finite values are all the same (one or more of
\* them), calculate_bands returns sigma = 0.001 and mad = 0, and
\* get_outlier_indices at threshold 2 returns no index.
C16_IdenticalValuesSigmaFloor ==
    Cardinality(CalcFinite) = 1 =>
        /\ calc_bands # None =>
              /\ 1000 * calc_bands[1].sigma = ValueScale * StatScale
              /\ calc_bands[1].mad = 0
        /\ (calc_outliers # None /\ calc_outliers[1].sigma_threshold = 2) =>
              /\ ~calc_outliers[1].raised
              /\ calc_outliers[1].idx = <<>>

\* both calls have returned for an array holding the same value twice and a
\* NaN, get_outlier_indices called at threshold 2
C16_Witness ==
    /\ Len(calc_values) = 3
    /\ Cardinality(CalcFinite) = 1
    /\ Cardinality({i \in 1..3 : calc_values[i].tag = "num"}) = 2
    /\ calc_bands # None
    /\ calc_outliers # None
    /\ calc_outliers[1].sigma_threshold = 2

\* C17: for an empty array and for an array without a finite value,
\* calculate_bands returns median = sigma = mad = min = max = 0 and both
\* bands (0, 0); is_outlier against that result is false for every value and
\* threshold, and get_outlier_indices returns no index.
C17_NeutralWithoutFiniteValue ==
    CalcFinite = {} =>
        /\ calc_bands # None =>
              calc_bands[1] = [median |-> 0, sigma |-> 0, mad |-> 0,
                               band_1sigma |-> <<0, 0>>,
                               band_2sigma |-> <<0, 0>>,
                               min |-> 0, max |-> 0]
        /\ calc_verdict # None => ~calc_verdict[1].outlier
        /\ calc_outliers # None =>
              /\ ~calc_outliers[1].raised
              /\ calc_outliers[1].idx = <<>>

\* the three calls have returned for an array of a NaN and an inf, is_outlier
\* asked about a value other than 0 at threshold 0
C17_Witness ==
    /\ Len(calc_values) = 2
    /\ calc_values[1] = NaN
    /\ calc_values[2] = Inf
    /\ calc_bands # None
    /\ calc_outliers # None
    /\ calc_verdict # None
    /\ calc_verdict[1].value # 0
    /\ calc_verdict[1].sigma_threshold = 0

\* the permutations of 1..n
IndexPermutations(n) ==
    {p \in [1..n -> 1..n] : \A i, j \in 1..n : p[i] = p[j] => i = j}

\* the array with the element of position p[i] at position i
Permuted(s, p) == [i \in 1..Len(s) |-> s[p[i]]]

SeqRange(s) == {s[i] : i \in 1..Len(s)}

\* C18: calculate_bands returns the same median, mad, sigma, bands, min and
\* max for every permutation of an array of finite values and NaN, and
\* get_outlier_indices flags the same elements: position i of the permuted
\* array is flagged exactly when the position it came from is.
C18_PermutationInvariant ==
    \A p \in IndexPermutations(Len(calc_values)) :
        /\ calc_bands # None =>
              CalculateBands(Permuted(calc_values, p)) = calc_bands[1]
        /\ calc_outliers # None =>
              LET out == GetOutlierIndices(Permuted(calc_values, p),
                                           calc_outliers[1].sigma_threshold)
              IN  /\ out.raised = calc_outliers[1].raised
                  /\ SeqRange(out.idx) =
                        {i \in 1..Len(calc_values) :
                            p[i] \in SeqRange(calc_outliers[1].idx)}

\* both calls have returned for an unsorted array of three different values
\* with a NaN among them, of which get_outlier_indices flagged one and not
\* the other
C18_Witness ==
    /\ Len(calc_values) = 3
    /\ calc_values[1] = Num(40)
    /\ calc_values[2] = Num(10)
    /\ calc_values[3] = Num(12)
    /\ calc_bands # None
    /\ calc_outliers # None
    /\ calc_outliers[1].idx = <<1>>

\* C20: for a frame analysed with a cap max_stars >= 1, metrics.star_count
\* (successful fits) <= star_count_fitted (all PSFResults, fallback entries
\* included) <= star_count_detected <= max_stars; the same holds between the
\* lists while the pipeline runs.
C20_StarCountsOrdered ==
    /\ pipe_stars # None => Len(pipe_stars[1]) <= max_stars
    /\ pipe_psf # None => Len(pipe_psf[1]) <= Len(pipe_stars[1])
    /\ pipe_result # None =>
          /\ pipe_result[1].metrics.star_count
                <= pipe_result[1].star_count_fitted
          /\ pipe_result[1].star_count_fitted
                <= pipe_result[1].star_count_detected
          /\ pipe_result[1].star_count_detected <= max_stars
          /\ pipe_result[1].star_count_fitted
                = pipe_result[1].metrics.star_count
                  + Cardinality({k \in 1..Len(pipe_psf[1]) :
                                    ~pipe_psf[1][k].fit_success})

\* a result has been built for an image with more sources than the cap: the
\* cap was reached, a star near the edge was skipped and a fit fell back
C20_Witness ==
    /\ pipe_result # None
    /\ Len(pipe_image) > max_stars
    /\ pipe_result[1].star_count_detected = max_stars
    /\ pipe_result[1].star_count_fitted < pipe_result[1].star_count_detected
    /\ pipe_result[1].metrics.star_count < pipe_result[1].star_count_fitted

\* C21: load_file returns a two-dimensional array taken from the first data
\* unit that holds a 2D plane or a 3D cube (the first plane of a cube), or
\* fails with NotFound when the path is missing and with NoImageData when no
\* data unit holds a 2D or 3D plane; it never returns an array of another
\* dimensionality.
C21_LoadFileTwoDimensional ==
    rd_image # None =>
        LET out == rd_image[1]
            planes == {i \in 1..Len(rd_hdus) : rd_hdus[i] \in {2, 3}}
        IN  IF ~rd_exists
            THEN out.raised /\ out.error = "FITS file not found"
            ELSE IF planes = {}
            THEN out.raised /\ out.error = "No image data found in FITS file"
            ELSE /\ ~out.raised
                 /\ out.ndim = 2
                 /\ out.hdu \in planes
                 /\ \A i \in planes : out.hdu <= i
                 /\ (out.plane = "first") = (rd_hdus[out.hdu] = 3)

\* C26: each of pixel size, focal length and aperture is the value of the
\* first key of its list that is present and parseable as a float, whatever
\* the value (0 included), and null when there is none; image_scale is
\* pixel_size / focal_length * 206.265 exactly when both are present and
\* focal_length > 0, null otherwise; metadata never makes the call raise.
C26_Parseable(v) == v # None /\ v[1].num # None

C26_FirstParseable(keys) ==
    LET ok == {k \in 1..Len(keys) : C26_Parseable(rd_header[keys[k]])}
    IN  IF ok = {} THEN None
        ELSE rd_header[keys[CHOOSE k \in ok : \A m \in ok : k <= m]][1].num

C26_FirstParseableValue ==
    (rd_params # None /\ rd_exists) =>
        LET out == rd_params[1]
            p == out.params
        IN  /\ ~out.raised
            /\ p.pixel_size_um = C26_FirstParseable(PixelSizeKeys)
            /\ p.focal_length_mm = C26_FirstParseable(FocalLengthKeys)
            /\ p.aperture_mm = C26_FirstParseable(ApertureKeys)
            /\ p.image_scale =
                  (IF p.pixel_size_um # None /\ p.focal_length_mm # None
                      /\ p.focal_length_mm[1] > 0
                   THEN Some((p.pixel_size_um[1] * ArcsecFactorMilli)
                             \div p.focal_length_mm[1])
                   ELSE None)

\* C26 (amended): each of pixel size, focal length and aperture is the value
\* of the first key of its list that is present with a truthy value (not the
\* number 0) and parseable as a float, and null when there is none;
\* image_scale is pixel_size / focal_length * 206.265 exactly when both are
\* present, pixel_size is not 0 and focal_length > 0, null otherwise; the
\* metadata of an existing file never makes the call raise.
C26_Usable(v) == v # None /\ v[1].num # None /\ (v[1].str \/ v[1].num[1] # 0)

C26_FirstUsable(keys) ==
    LET ok == {k \in 1..Len(keys) : C26_Usable(rd_header[keys[k]])}
    IN  IF ok = {} THEN None
        ELSE rd_header[keys[CHOOSE k \in ok : \A m \in ok : k <= m]][1].num

C26_FirstTruthyParseableValue ==
    (rd_params # None /\ rd_exists) =>
        LET out == rd_params[1]
            p == out.params
        IN  /\ ~out.raised
            /\ p.pixel_size_um = C26_FirstUsable(PixelSizeKeys)
            /\ p.focal_length_mm = C26_FirstUsable(FocalLengthKeys)
            /\ p.aperture_mm = C26_FirstUsable(ApertureKeys)
            /\ p.image_scale =
                  (IF p.pixel_size_um # None /\ p.focal_length_mm # None
                      /\ p.pixel_size_um[1] # 0 /\ p.focal_length_mm[1] > 0
                   THEN Some((p.pixel_size_um[1] * ArcsecFactorMilli)
                             \div p.focal_length_mm[1])
                   ELSE None)

\* XPIXSZ holds the number 0 and PIXSIZE a pixel size: the call returned the
\* latter and an image scale
C26_Witness ==
    /\ rd_params # None
    /\ rd_exists
    /\ rd_header["XPIXSZ"] = Some(HNum(0))
    /\ rd_header["PIXSIZE"] = Some(HNum(3))
    /\ rd_params[1].params.pixel_size_um = Some(3)
    /\ rd_params[1].params.image_scale # None

\* C22: constructing the analyzer with max_stars <= 0 fails at construction
\* with a configuration error: no analyzer is built, no batch is started and
\* no per-file result is produced with such a configuration.
C22_InvalidMaxStarsRejected ==
    max_stars <= 0 => (pc = "new" /\ mode = "none" /\ results = <<>> /\ ret = None)

\* C24: on both detection paths the stars detect_stars returns are in order
\* of non-increasing flux, number min(detections, max_stars), and are the
\* brightest: no detection left out has a larger flux than one kept.
C24_BrightestKept ==
    det_stars # None =>
        LET out == det_stars[1]
            kept == {out[k] : k \in 1..Len(out)}
            all == {det_found[k] : k \in 1..Len(det_found)}
        IN  /\ \A i, j \in 1..Len(out) : i < j => out[i].flux >= out[j].flux
            /\ Len(out) = Min2(Len(det_found), max_stars)
            /\ kept \subseteq all
            /\ \A d \in all \ kept : \A k \in kept : d.flux <= k.flux

\* C25: fit_psf returns one PSFResult for every candidate whose fitting box
\* (box_size forced odd, centred on the rounded position) lies inside the
\* image and none for the others, in the order of the candidates and with
\* their x and y; a fit that fails or gives a width outside [0.5, box_size]
\* becomes a fallback entry (both widths the expected fwhm, amplitude the
\* candidate's peak, fit_success false) and is neither raised nor dropped.
C25_Inside(star) ==
    LET box == IF det_box_size % 2 = 0 THEN det_box_size + 1 ELSE det_box_size
        half == (box - 1) \div 2
    IN  /\ PyRound(star.x) - half >= 0 /\ PyRound(star.x) + half <= ImageWidth - 1
        /\ PyRound(star.y) - half >= 0 /\ PyRound(star.y) + half <= ImageHeight - 1

C25_FitInRange(star) ==
    LET box == IF det_box_size % 2 = 0 THEN det_box_size + 1 ELSE det_box_size
    IN  /\ star.fit # None
        /\ \A w \in {star.fit[1].fwhm_x, star.fit[1].fwhm_y} :
               2 * w >= PosScale /\ w <= box * PosScale

C25_OneResultPerCandidateInside ==
    det_psf # None =>
        LET inside == SelectSeq(det_stars[1], C25_Inside)
            out == det_psf[1]
        IN  /\ Len(out) = Len(inside)
            /\ \A k \in 1..Len(inside) :
                  /\ out[k].x = inside[k].x
                  /\ out[k].y = inside[k].y
                  /\ IF C25_FitInRange(inside[k])
                     THEN /\ out[k].fit_success
                          /\ out[k].fwhm_x = inside[k].fit[1].fwhm_x
                          /\ out[k].fwhm_y = inside[k].fit[1].fwhm_y
                          /\ out[k].amplitude = inside[k].fit[1].amplitude
                     ELSE /\ ~out[k].fit_success
                          /\ out[k].fwhm_x = FwhmEstimate
                          /\ out[k].fwhm_y = FwhmEstimate
                          /\ out[k].amplitude = inside[k].peak

\* three candidates: one near the edge is skipped, one is fitted, and one
\* whose fit is too wide for the box is kept as a fallback entry
C25_Witness ==
    /\ det_psf # None
    /\ Len(det_stars[1]) = 3
    /\ Len(det_psf[1]) = 2
    /\ \E k \in 1..2 : det_psf[1][k].fit_success
    /\ \E k \in 1..2 : ~det_psf[1][k].fit_success /\ det_psf[1][k].amplitude = 150

\* C23: calculate_eccentricity returns e with 0 <= e < 1 for every list of
\* PSFResults of fit_psf; e is exactly 0 when every successful fit has
\* fwhm_x = fwhm_y, which covers the empty list and the list without a
\* successful fit.
C23_EccentricityInRange ==
    det_ecc # None =>
        LET e == det_ecc[1]
            psf == det_psf[1]
            round == \A k \in 1..Len(psf) :
                        psf[k].fit_success => psf[k].fwhm_x = psf[k].fwhm_y
        IN  /\ 0 <= e /\ e < EccScale
            /\ round => e = 0

\* a round and an elongated fit among the results: the median is above 0
C23_Witness ==
    /\ det_ecc # None
    /\ det_ecc[1] > 0
    /\ \E k \in 1..Len(det_psf[1]) :
          det_psf[1][k].fit_success /\ det_psf[1][k].fwhm_x = det_psf[1][k].fwhm_y
    /\ \E k \in 1..Len(det_psf[1]) : ~det_psf[1][k].fit_success

\* only round fits succeeded, next to a fallback entry: exactly 0
C23_WitnessRound ==
    /\ det_ecc = Some(0)
    /\ \E k \in 1..Len(det_psf[1]) : det_psf[1][k].fit_success
    /\ \E k \in 1..Len(det_psf[1]) : ~det_psf[1][k].fit_success

\* C27: whenever analysis results are displayed, analysis_results has the
\* length of the file panel's list and analysis_results[i] is the result of
\* the file shown at row i, whatever the interleaving of the background
\* thread with the user's events and with changes of the folder.
C27_ResultsMatchRows ==
    Len(analysis_results) > 0 =>
        /\ Len(analysis_results) = Len(fp_files)
        /\ \A i \in 1..Len(analysis_results) :
              analysis_results[i].filepath = fp_files[i].path

\* C28: the plot, the rows of the file panel and analysis_results share one
\* index space, also after deletions: point i of the plot draws the file of
\* row i, whose result is analysis_results[i]; so no file is sent to the
\* trash that the user had not marked.
C28_PlotRowsAligned ==
    /\ plot_points # None =>
          /\ Len(plot_points[1]) = Len(fp_files)
          /\ Len(plot_points[1]) = Len(analysis_results)
          /\ \A i \in 1..Len(plot_points[1]) :
                /\ plot_points[1][i].path = fp_files[i].path
                /\ plot_points[1][i].path = analysis_results[i].filepath
    /\ trash \subseteq approved

\* C29: after every user event the three selections are equal as sets, row
\* i has its checkbox and its deletion marker set exactly when i is in the
\* set, and the toolbar's delete count is the size of the set.
C29_SelectionsAgree ==
    /\ selected_for_deletion = fp_selected
    /\ fp_selected = plot_selected
    /\ \A i \in 1..Len(fp_widgets) :
          /\ fp_widgets[i].var = (i \in fp_selected)
          /\ fp_widgets[i].marker = (i \in fp_selected)
    /\ delete_count = Cardinality(selected_for_deletion)

\* C30: at most one background analysis is in flight, one is in flight only
\* while is_analyzing is true, and once a started analysis is over (its
\* thread has ended and its callback has run) is_analyzing is false again.
C30_InFlight == {k \in 1..Len(threads) : threads[k].pc # "except"}

C30_OneAnalysisThenReset ==
    /\ Cardinality(C30_InFlight) <= 1
    /\ C30_InFlight # {} => is_analyzing
    /\ (Len(threads) = 0 /\ Len(after_queue) = 0) => ~is_analyzing

====
